---- MODULE Spec2Model ----
(***************************************************************************)
(* Model of main/parsers/tft_patch_parser.py: the patch-notes parser.      *)
(*                                                                         *)
(* Strings are sequences of one-character strings, so that strip(),        *)
(* splitlines(), upper(), "in" and startswith() are computed, not assumed. *)
(* A markup document is the element tree BeautifulSoup builds from it,     *)
(* kept as the sequence of its elements in document order (pre-order),     *)
(* each with the index of its parent (0 = the soup itself).                *)
(***************************************************************************)
EXTENDS Integers, Sequences, FiniteSets, TLC

\* The calls of the parser: arguments, position, locals and result of each.
VARIABLES raw_html, raw_text, entry, pc, intro, todo, ctx, blocks, parsed, result

\* A call of one of the classifier functions: its argument and what it returned.
VARIABLES arg, answer

\* The fetch command: the Patch and PatchSection tables and the runs of the command.
VARIABLES patches, sections, run

classifierVars == <<arg, answer>>

fetchVars == <<patches, sections, run>>

\* The bucket view built again from the blocks of a call: the Bucket lists of the
\* build and the views built so far.
VARIABLES view_buckets, views

viewVars == <<view_buckets, views>>

vars == <<raw_html, raw_text, entry, pc, intro, todo, ctx, blocks, parsed, result,
          arg, answer, patches, sections, run, view_buckets, views>>

-----------------------------------------------------------------------------
(* Bounds of the model *)

\* Largest number of elements in a markup document of the sequential specification.
MaxNodes == 3

\* Largest number of elements in a markup document given to parse_tft_patch_html.
MaxFlat == 4

\* Largest number of parts a title given to a classifier function is made of.
MaxParts == 3

\* Largest number of times the bucket view is built again from the same blocks.
MaxBuilds == 2

\* Largest length of a text given to _clean_text.
MaxText == 5

-----------------------------------------------------------------------------
(* Python values *)

\* Optional[int] / Optional[str]: None is the empty tuple, a value v is <<v>>.
None == <<>>

Some(v) == <<v>>

\* str.isspace() characters of the model's alphabet.
Whitespace == {" ", "\n", "\t", "\r"}

Digits == <<"0", "1", "2", "3", "4", "5", "6", "7", "8", "9">>

LowerCase == <<"a", "b", "c", "d", "e", "f", "g", "h", "i", "j", "k", "l", "m",
               "n", "o", "p", "q", "r", "s", "t", "u", "v", "w", "x", "y", "z">>

UpperCase == <<"A", "B", "C", "D", "E", "F", "G", "H", "I", "J", "K", "L", "M",
               "N", "O", "P", "Q", "R", "S", "T", "U", "V", "W", "X", "Y", "Z">>

Range(f) == {f[i] : i \in DOMAIN f}

DigitChars == Range(Digits)

IsDigit(ch) == ch \in DigitChars

\* \w of the regular expression: letters, digits, underscore.
WordChars == Range(LowerCase) \cup Range(UpperCase) \cup Range(Digits) \cup {"_"}

IsWord(ch) == ch \in WordChars

\* The upper-case letter of each lower-case letter.
UpperOf == [ch \in Range(LowerCase) |->
               UpperCase[CHOOSE i \in DOMAIN LowerCase : LowerCase[i] = ch]]

\* The value of each decimal digit.
DigitValue == [ch \in DigitChars |-> (CHOOSE i \in DOMAIN Digits : Digits[i] = ch) - 1]

\* str.upper() on one character.
UpperChar(ch) == IF ch \in DOMAIN UpperOf THEN UpperOf[ch] ELSE ch

\* str.upper()
Upper(s) == [i \in DOMAIN s |-> UpperChar(s[i])]

RECURSIVE RStrip(_)
\* str.rstrip()
RStrip(s) ==
    IF s = <<>> THEN <<>>
    ELSE IF s[Len(s)] \in Whitespace THEN RStrip(SubSeq(s, 1, Len(s) - 1))
    ELSE s

RECURSIVE LStrip(_)
\* str.lstrip()
LStrip(s) ==
    IF s = <<>> THEN <<>>
    ELSE IF s[1] \in Whitespace THEN LStrip(Tail(s))
    ELSE s

\* str.strip()
Strip(s) == LStrip(RStrip(s))

\* needle in hay
Contains(hay, needle) ==
    \E i \in 1..(Len(hay) - Len(needle) + 1) :
        SubSeq(hay, i, i + Len(needle) - 1) = needle

\* hay.startswith(prefix)
StartsWith(hay, prefix) ==
    /\ Len(hay) >= Len(prefix)
    /\ SubSeq(hay, 1, Len(prefix)) = prefix

RECURSIVE SkipWhile(_, _, _)
\* The first position from i on whose character is not in chars (Len(s) + 1: none).
SkipWhile(s, i, chars) ==
    IF i <= Len(s) /\ s[i] \in chars THEN SkipWhile(s, i + 1, chars) ELSE i

RECURSIVE IndexOf(_, _, _)
\* The first position from i on that holds a character of chars (Len(s) + 1: none).
IndexOf(s, chars, i) ==
    IF i <= Len(s) /\ s[i] \notin chars THEN IndexOf(s, chars, i + 1) ELSE i

\* The characters that end a line.
LineBreaks == {"\n", "\r"}

RECURSIVE SplitLines(_)
\* str.splitlines() for the line breaks "\n", "\r" and "\r\n": no empty last
\* line after a final break.
SplitLines(s) ==
    IF s = <<>> THEN <<>>
    ELSE LET i    == IndexOf(s, LineBreaks, 1)
             crlf == i < Len(s) /\ s[i] = "\r" /\ s[i + 1] = "\n"
         IN  IF i <= Len(s)
             THEN <<SubSeq(s, 1, i - 1)>>
                  \o SplitLines(SubSeq(s, IF crlf THEN i + 2 ELSE i + 1, Len(s)))
             ELSE <<s>>

RECURSIVE Join(_, _)
\* sep.join(parts)
Join(sep, parts) ==
    IF parts = <<>> THEN <<>>
    ELSE IF Len(parts) = 1 THEN parts[1]
    ELSE parts[1] \o sep \o Join(sep, Tail(parts))

RECURSIVE DropLeadingBlank(_)
\* while lines and not lines[0].strip(): lines.pop(0)
DropLeadingBlank(lines) ==
    IF lines # <<>> /\ Strip(lines[1]) = <<>>
    THEN DropLeadingBlank(Tail(lines))
    ELSE lines

RECURSIVE DropTrailingBlank(_)
\* while lines and not lines[-1].strip(): lines.pop()
DropTrailingBlank(lines) ==
    IF lines # <<>> /\ Strip(lines[Len(lines)]) = <<>>
    THEN DropTrailingBlank(SubSeq(lines, 1, Len(lines) - 1))
    ELSE lines

\* [f(x) for x in xs if keep]: the non-empty members of a list of strings.
NonEmpty(xs) == SelectSeq(xs, LAMBDA x : x # <<>>)

\* A variant that leaves out the strip() of the joined lines.
_clean_text_unstripped(s) ==
    LET split == SplitLines(s)
        lines == [i \in DOMAIN split |-> RStrip(split[i])]
    IN  Join(<<"\n">>, DropTrailingBlank(DropLeadingBlank(lines)))

_clean_text(s) ==
    LET split == SplitLines(s)
        lines == [i \in DOMAIN split |-> RStrip(split[i])]
    IN  Strip(Join(<<"\n">>, DropTrailingBlank(DropLeadingBlank(lines))))

-----------------------------------------------------------------------------
(* Classifier *)

LARGE_CHANGES == <<"L", "A", "R", "G", "E", " ", "C", "H", "A", "N", "G", "E", "S">>

SMALL_CHANGES == <<"S", "M", "A", "L", "L", " ", "C", "H", "A", "N", "G", "E", "S">>

UNITS_COLON == <<"U", "N", "I", "T", "S", ":">>

TRAITS == <<"T", "R", "A", "I", "T", "S">>

AUGMENTS == <<"A", "U", "G", "M", "E", "N", "T", "S">>

CORE_ITEMS == <<"C", "O", "R", "E", " ", "I", "T", "E", "M", "S">>

RADIANT_ITEMS == <<"R", "A", "D", "I", "A", "N", "T", " ", "I", "T", "E", "M", "S">>

ARTIFACTS == <<"A", "R", "T", "I", "F", "A", "C", "T", "S">>

EMBLEMS == <<"E", "M", "B", "L", "E", "M", "S">>

TIER == <<"T", "I", "E", "R">>

\* A variant that looks for "SMALL CHANGES" first.
_major_group_from_h2_small_first(title) ==
    LET t == Upper(Strip(title))
    IN  IF Contains(t, SMALL_CHANGES) THEN "small"
        ELSE IF Contains(t, LARGE_CHANGES) THEN "large"
        ELSE "all"

_major_group_from_h2(title) ==
    LET t == Upper(Strip(title))
    IN  IF Contains(t, LARGE_CHANGES) THEN "large"
        ELSE IF Contains(t, SMALL_CHANGES) THEN "small"
        ELSE "all"

\* A variant that names the units category "units", which is no bucket key.
_category_from_h4_units(title) ==
    LET t == Upper(Strip(title))
    IN  IF StartsWith(t, UNITS_COLON) THEN "units"
        ELSE IF t \in {TRAITS} THEN "traits"
        ELSE IF t \in {AUGMENTS} THEN "augments"
        ELSE IF t \in {CORE_ITEMS, RADIANT_ITEMS, ARTIFACTS, EMBLEMS} THEN "items"
        ELSE "other"

\* A variant that takes every title starting with "TRAITS" for a traits heading.
_category_from_h4_prefix(title) ==
    LET t == Upper(Strip(title))
    IN  IF StartsWith(t, UNITS_COLON) THEN "champions"
        ELSE IF StartsWith(t, TRAITS) THEN "traits"
        ELSE IF t \in {AUGMENTS} THEN "augments"
        ELSE IF t \in {CORE_ITEMS, RADIANT_ITEMS, ARTIFACTS, EMBLEMS} THEN "items"
        ELSE "other"

_category_from_h4(title) ==
    LET t == Upper(Strip(title))
    IN  IF StartsWith(t, UNITS_COLON) THEN "champions"
        ELSE IF t \in {TRAITS} THEN "traits"
        ELSE IF t \in {AUGMENTS} THEN "augments"
        ELSE IF t \in {CORE_ITEMS, RADIANT_ITEMS, ARTIFACTS, EMBLEMS} THEN "items"
        ELSE "other"

RECURSIVE IntOf(_)
\* int() of a string of decimal digits.
IntOf(ds) ==
    IF ds = <<>> THEN 0
    ELSE 10 * IntOf(SubSeq(ds, 1, Len(ds) - 1)) + DigitValue[ds[Len(ds)]]

\* A word boundary \b before position i of t (between t[i-1] and t[i]).
WordBoundary(t, i) ==
    LET before == i > 1 /\ i - 1 <= Len(t) /\ IsWord(t[i - 1])
        after  == i >= 1 /\ i <= Len(t) /\ IsWord(t[i])
    IN  before # after

\* The end of the match of \bTIER\s*(\d+)\b that starts at position i of t, as
\* <<first digit, last digit>>, or None. \s* takes all the whitespace after TIER
\* and \d+ the whole run of digits: the only split after which \b can hold.
TierMatchAt(t, i) ==
    IF ~(WordBoundary(t, i) /\ i + 3 <= Len(t) /\ SubSeq(t, i, i + 3) = TIER)
    THEN None
    ELSE LET first == SkipWhile(t, i + 4, Whitespace)
             after == SkipWhile(t, first, DigitChars)
         IN  IF after > first /\ WordBoundary(t, after)
             THEN Some(<<first, after - 1>>)
             ELSE None

RECURSIVE TierSearch(_, _)
\* re.search: the match at the leftmost position from i on, or None.
TierSearch(t, i) ==
    IF i > Len(t) THEN None
    ELSE IF TierMatchAt(t, i) # None THEN TierMatchAt(t, i)
    ELSE TierSearch(t, i + 1)

\* A variant that does not upper-case the title.
_extract_unit_tier_as_written(h4_title) ==
    IF h4_title = <<>> THEN None
    ELSE LET t == Strip(h4_title)
             m == TierSearch(t, 1)
         IN  IF m = None THEN None
             ELSE Some(IntOf(SubSeq(t, m[1][1], m[1][2])))

_extract_unit_tier(h4_title) ==
    IF h4_title = <<>> THEN None
    ELSE LET t == Upper(Strip(h4_title))
             m == TierSearch(t, 1)
         IN  IF m = None THEN None
             ELSE Some(IntOf(SubSeq(t, m[1][1], m[1][2])))

-----------------------------------------------------------------------------
(* Markup documents *)

\* One element of the tree: its tag, id and class attributes, the text directly in
\* it (before its children), the texts of its <li> children (a list only) and
\* the index of its parent element (0: the soup).
Element(tag, id, cls, text, items, parent) ==
    [tag |-> tag, id |-> id, cls |-> cls, text |-> text, items |-> items,
     parent |-> parent]

T_LargeChanges == <<"L", "a", "r", "g", "e", " ", "C", "h", "a", "n", "g", "e", "s">>

T_UnitsTier2 == <<"U", "N", "I", "T", "S", ":", " ", "T", "i", "e", "r", " ", "2">>

T_Tier3 == <<"T", "i", "e", "r", " ", "3">>

T_SmallChanges == <<"s", "m", "a", "l", "l", " ", "c", "h", "a", "n", "g", "e", "s">>

T_Traits == <<"T", "r", "a", "i", "t", "s">>

\* The elements documents are made of, without their place in the tree.
ElementKinds ==
    { Element("h2", "", {}, T_LargeChanges, <<>>, 0),
      Element("h4", "", {}, T_UnitsTier2, <<>>, 0),
      Element("h4", "", {}, T_Tier3, <<>>, 0),
      Element("blockquote", "", {"blockquote", "context"}, <<"a">>, <<>>, 0),
      Element("blockquote", "", {"blockquote", "context"}, <<>>, <<>>, 0),
      Element("blockquote", "", {}, <<"b", " ">>, <<>>, 0),
      Element("div", "", {"context-designers"}, <<"d">>, <<>>, 0),
      Element("ul", "", {}, <<>>, << <<"x">>, <<" ">>, <<"y">> >>, 0),
      Element("ul", "", {}, <<>>, << <<" ">> >>, 0),
      Element("div", "patch-notes-container", {}, <<>>, <<>>, 0) }

\* The kinds in the documents given to parse_tft_patch.
ParseKinds ==
    { Element("h2", "", {}, T_LargeChanges, <<>>, 0),
      Element("h4", "", {}, T_UnitsTier2, <<>>, 0),
      Element("blockquote", "", {"blockquote", "context"}, <<"a">>, <<>>, 0),
      Element("blockquote", "", {"blockquote", "context"}, <<>>, <<>>, 0),
      Element("blockquote", "", {}, <<"b", " ">>, <<>>, 0),
      Element("ul", "", {}, <<>>, << <<"x">>, <<" ">>, <<"y">> >>, 0) }

\* The kinds in the documents given to parse_tft_patch_html: both major
\* headings, a sub heading, an intro with and without text, a quote and a list.
ViewKinds ==
    { Element("h2", "", {}, T_LargeChanges, <<>>, 0),
      Element("h2", "", {}, T_SmallChanges, <<>>, 0),
      Element("h4", "", {}, T_Traits, <<>>, 0),
      Element("blockquote", "", {"blockquote", "context"}, <<"a">>, <<>>, 0),
      Element("blockquote", "", {"blockquote", "context"}, <<>>, <<>>, 0),
      Element("blockquote", "", {}, <<"b", " ">>, <<>>, 0),
      Element("ul", "", {}, <<>>, << <<"x">>, <<" ">>, <<"y">> >>, 0) }

\* The kinds in the documents of the walk under two major and two sub headings:
\* with an intro, a quote, a list, a list of a blank item and the container.
WalkKinds ==
    { Element("h2", "", {}, T_LargeChanges, <<>>, 0),
      Element("h2", "", {}, T_SmallChanges, <<>>, 0),
      Element("h4", "", {}, T_UnitsTier2, <<>>, 0),
      Element("h4", "", {}, T_Tier3, <<>>, 0),
      Element("blockquote", "", {"blockquote", "context"}, <<"a">>, <<>>, 0),
      Element("blockquote", "", {}, <<"b", " ">>, <<>>, 0),
      Element("ul", "", {}, <<>>, << <<"x">>, <<" ">>, <<"y">> >>, 0),
      Element("ul", "", {}, <<>>, << <<" ">> >>, 0),
      Element("div", "patch-notes-container", {}, <<>>, <<>>, 0) }

\* Headings hold text only; every other element may hold elements.
MayHoldElements(e) == e.tag \notin {"h2", "h4"}

\* The tree shapes of n elements, as the parent of each (0: the soup). Document
\* order is pre-order: the elements between an element and its parent are
\* inside that parent too.
Shapes(n) ==
    { p \in [1..n -> 0..(n - 1)] :
        \A i \in 1..n :
            /\ p[i] < i
            /\ \A j \in (p[i] + 1)..(i - 1) : p[j] >= p[i] }

\* The document of the kinds k[1], ..., k[n] in the shape p.
Shaped(k, p) == [i \in DOMAIN k |-> [k[i] EXCEPT !.parent = p[i]]]

\* Whether the elements that hold elements in it may.
WellFormed(d) == \A i \in DOMAIN d : d[i].parent # 0 => MayHoldElements(d[d[i].parent])

\* raw_html: absent (None), the empty string, or markup with its element tree.
NoHtml == [kind |-> "None", nodes |-> <<>>]

EmptyHtml == [kind |-> "empty", nodes |-> <<>>]

Markup(d) == [kind |-> "markup", nodes |-> d]

\* Python truth of raw_html: None and "" are false.
Truthy(html) == html.kind = "markup"

RECURSIVE IsAncestor(_, _, _)
\* a is a proper ancestor of element j (the soup, 0, of every element).
IsAncestor(d, a, j) ==
    IF j = 0 THEN FALSE
    ELSE d[j].parent = a \/ IsAncestor(d, a, d[j].parent)

\* The indices of the elements below a, in document order.
Descendants(d, a) == SelectSeq([i \in 1..Len(d) |-> i], LAMBDA j : IsAncestor(d, a, j))

\* The indices of a and of the elements below it, in document order.
Subtree(d, a) == SelectSeq([i \in 1..Len(d) |-> i], LAMBDA j : j = a \/ IsAncestor(d, a, j))

\* The first member of a sequence of indices, or None.
First(js) == IF js = <<>> THEN None ELSE Some(js[1])

RECURSIVE Flatten(_)
Flatten(ss) == IF ss = <<>> THEN <<>> ELSE ss[1] \o Flatten(Tail(ss))

\* The strings of element a's subtree in document order: an element's own text,
\* then its <li> texts, then its child elements.
Strings(d, a) ==
    LET sub == Subtree(d, a)
    IN  Flatten([k \in DOMAIN sub |-> <<d[sub[k]].text>> \o d[sub[k]].items])

\* node.get_text(sep, strip=True): every string stripped, the empty ones left
\* out, joined by sep.
get_text(d, a, sep) ==
    LET strings == Strings(d, a)
    IN  Join(sep, NonEmpty([k \in DOMAIN strings |-> Strip(strings[k])]))

_render_node_as_text(d, a) == _clean_text(get_text(d, a, <<"\n">>))

\* el.find_all("li", recursive=True), each as li.get_text(" ", strip=True).
LiTexts(d, a) ==
    LET sub == Subtree(d, a)
        lis == Flatten([k \in DOMAIN sub |-> d[sub[k]].items])
    IN  [k \in DOMAIN lis |-> Strip(lis[k])]

\* soup.select_one("#patch-notes-container") or soup
Root(d) ==
    LET hit == SelectSeq(Descendants(d, 0), LAMBDA j : d[j].id = "patch-notes-container")
    IN  IF hit = <<>> THEN 0 ELSE hit[1]

\* root.select_one("blockquote.blockquote.context")
SelectIntro(d) ==
    First(SelectSeq(Descendants(d, Root(d)),
                    LAMBDA j : /\ d[j].tag = "blockquote"
                               /\ {"blockquote", "context"} \subseteq d[j].cls))

\* root.select_one(".context-designers")
SelectDesigners(d) ==
    First(SelectSeq(Descendants(d, Root(d)),
                    LAMBDA j : "context-designers" \in d[j].cls))

\* A variant that yields every element twice.
FindAllTwice(d) ==
    LET all == SelectSeq(Descendants(d, Root(d)),
                         LAMBDA j : d[j].tag \in {"h2", "h4", "blockquote", "ul"})
    IN  all \o all

\* A variant that yields the elements last to first.
FindAllLastFirst(d) ==
    LET all == SelectSeq(Descendants(d, Root(d)),
                         LAMBDA j : d[j].tag \in {"h2", "h4", "blockquote", "ul"})
    IN  [i \in DOMAIN all |-> all[Len(all) + 1 - i]]

\* root.find_all(["h2", "h4", "blockquote", "ul"], recursive=True)
FindAll(d) ==
    SelectSeq(Descendants(d, Root(d)),
              LAMBDA j : d[j].tag \in {"h2", "h4", "blockquote", "ul"})

-----------------------------------------------------------------------------
(* Blocks and buckets *)

PatchBlock(category, size, h2, h4, order, text, lines, unit_tier) ==
    [category |-> category, size |-> size, h2 |-> h2, h4 |-> h4, order |-> order,
     text |-> text, lines |-> lines, unit_tier |-> unit_tier]

BucketKeys == <<"overview", "champions", "items", "traits", "augments", "other">>

_mk_buckets == [key \in Range(BucketKeys) |-> [all |-> <<>>, large |-> <<>>, small |-> <<>>]]

\* A variant that puts the designers' text before the intro's.
OverviewPartsNotesFirst(d) ==
    (IF SelectDesigners(d) # None
     THEN <<_render_node_as_text(d, SelectDesigners(d)[1])>> ELSE <<>>)
    \o (IF SelectIntro(d) # None
        THEN <<_render_node_as_text(d, SelectIntro(d)[1])>> ELSE <<>>)

\* The overview parts of the pre-pass: the intro's text, then the designers' text.
OverviewParts(d) ==
    (IF SelectIntro(d) # None
     THEN <<_render_node_as_text(d, SelectIntro(d)[1])>> ELSE <<>>)
    \o (IF SelectDesigners(d) # None
        THEN <<_render_node_as_text(d, SelectDesigners(d)[1])>> ELSE <<>>)

\* The overview block, appended whenever overview_parts is not empty.
OverviewBlock(d, order) ==
    PatchBlock("overview", "all", <<>>, <<>>, order,
               _clean_text(Join(<<"\n", "\n">>, OverviewParts(d))), <<>>, None)

\* A variant that leaves the counter where it is.
NextOrderStuck(order) == order

\* order += 1
NextOrder(order) == order + 1

\* A variant whose default category is "overview".
CategoryDefaultOverview(current_h4) ==
    IF current_h4 # <<>> THEN _category_from_h4(current_h4) ELSE "overview"

\* cat = _category_from_h4(current_h4) if current_h4 else "other"
Category(current_h4) ==
    IF current_h4 # <<>> THEN _category_from_h4(current_h4) ELSE "other"

\* A variant that extracts the tier whatever the category.
UnitTierUnguarded(cat, current_h4) == _extract_unit_tier(current_h4)

\* unit_tier = _extract_unit_tier(current_h4) if cat == "champions" else None
UnitTier(cat, current_h4) ==
    IF cat = "champions" THEN _extract_unit_tier(current_h4) ELSE None

\* A variant that prefers the major heading to the sub heading.
HeadingOfMajorFirst(b) == IF b.h2 # <<>> THEN b.h2 ELSE b.h4

\* heading = b["h4"] or b["h2"] or ""
HeadingOf(b) == IF b.h4 # <<>> THEN b.h4 ELSE b.h2

\* block = f"{heading}\n{body}".strip() if heading else body
BucketEntry(heading, body) ==
    IF heading # <<>> THEN Strip(heading \o <<"\n">> \o body) ELSE body

\* buckets[cat] raises KeyError: reached only with a non-empty body.
AppendRaises(buckets, cat, body) ==
    _clean_text(body) # <<>> /\ cat \notin DOMAIN buckets

\* A variant that files under small every block that is not large.
_append_bucket_block_else_small(buckets, cat, size, heading, body) ==
    LET text  == _clean_text(body)
        block == BucketEntry(heading, text)
    IN  IF text = <<>> THEN buckets
        ELSE [buckets EXCEPT
                 ![cat].all   = Append(@, block),
                 ![cat].large = IF size = "large" THEN Append(@, block) ELSE @,
                 ![cat].small = IF size # "large" THEN Append(@, block) ELSE @]

_append_bucket_block(buckets, cat, size, heading, body) ==
    LET text  == _clean_text(body)
        block == BucketEntry(heading, text)
    IN  IF text = <<>> THEN buckets
        ELSE [buckets EXCEPT
                 ![cat].all   = Append(@, block),
                 ![cat].large = IF size = "large" THEN Append(@, block) ELSE @,
                 ![cat].small = IF size = "small" THEN Append(@, block) ELSE @]

RECURSIVE FillBuckets(_, _)
\* for b in blocks: _append_bucket_block(buckets, ...), up to the first KeyError.
FillBuckets(bs, buckets) ==
    IF bs = <<>> \/ AppendRaises(buckets, bs[1].category, bs[1].text) THEN buckets
    ELSE FillBuckets(Tail(bs),
                     _append_bucket_block(buckets, bs[1].category, bs[1].size,
                                          HeadingOf(bs[1]), bs[1].text))

\* Whether the loop over the blocks raises KeyError.
FillRaises(bs) ==
    \E i \in DOMAIN bs : bs[i].category \notin Range(BucketKeys) /\ _clean_text(bs[i].text) # <<>>

\* out[key] = {"all": ..., "large": ..., "small": ...} for each of the six keys,
\* as the sequence of the items of the OrderedDict.
OutOf(buckets) ==
    LET para == <<"\n", "\n">>
    IN  [k \in DOMAIN BucketKeys |->
            [key   |-> BucketKeys[k],
             all   |-> _clean_text(Join(para, buckets[BucketKeys[k]].all)),
             large |-> _clean_text(Join(para, buckets[BucketKeys[k]].large)),
             small |-> _clean_text(Join(para, buckets[BucketKeys[k]].small))]]

\* A variant that goes on with the Bucket lists of the build before.
BucketsOfLastBuild(last) == last

\* buckets = _mk_buckets(): new lists at every build, whatever the last one left.
NewBuckets(last) == _mk_buckets

\* The OrderedDict parse_tft_patch_html returns, as the sequence of its items:
\* empty for no blocks, else one item for each of the six keys.
parse_tft_patch_html(bs) ==
    IF bs = <<>> THEN <<>>
    ELSE OutOf(FillBuckets(bs, _mk_buckets))

\* A variant that tests "raw_text is not None".
TruthyTextNotNone(t) == t # None

\* Python truth of raw_text: None and "" are false.
TruthyText(t) == t # None /\ t[1] # <<>>

\* A variant that returns raw_text as given, without strip().
FallbackDictVerbatim(t) ==
    <<[key |-> "overview", all |-> t[1], large |-> <<>>, small |-> <<>>]>>

\* OrderedDict([("overview", {"all": raw_text.strip(), "large": "", "small": ""})])
FallbackDict(t) ==
    <<[key |-> "overview", all |-> Strip(t[1]), large |-> <<>>, small |-> <<>>]>>

\* A variant that prefers the text to the markup.
parse_tft_patch_return_text_first(view, t) ==
    IF TruthyText(t) THEN [outcome |-> "fallback", value |-> FallbackDict(t)]
    ELSE IF view # <<>> THEN [outcome |-> "view", value |-> view]
    ELSE [outcome |-> "empty", value |-> <<>>]

\* What parse_tft_patch returns once the markup gave `view` (empty when the
\* markup is false or gave no blocks): the outcome and the returned dict.
parse_tft_patch_return(view, t) ==
    IF view # <<>> THEN [outcome |-> "view", value |-> view]
    ELSE IF TruthyText(t) THEN [outcome |-> "fallback", value |-> FallbackDict(t)]
    ELSE [outcome |-> "empty", value |-> <<>>]

-----------------------------------------------------------------------------
(* parse_tft_patch_blocks: the pre-pass, one turn of the loop, the whole call *)

FreshLocals == [order |-> 0, current_h2 |-> <<>>, current_size |-> "all", current_h4 |-> <<>>]

\* blocks after the pre-pass: the overview block if there are overview parts.
PrepassBlocks(d) == IF OverviewParts(d) # <<>> THEN <<OverviewBlock(d, 0)>> ELSE <<>>

\* order, current_h2, current_size and current_h4 when the loop starts.
PrepassLocals(d) ==
    [FreshLocals EXCEPT !.order = IF OverviewParts(d) # <<>> THEN NextOrder(0) ELSE 0]

\* A variant in which a new major heading clears the sub heading.
H2LocalsResetSub(cur, d, j) ==
    LET title == _clean_text(get_text(d, j, <<" ">>))
    IN  [cur EXCEPT !.current_h2 = title, !.current_size = _major_group_from_h2(title),
                    !.current_h4 = <<>>]

\* The locals after the h2 element j.
H2Locals(cur, d, j) ==
    LET title == _clean_text(get_text(d, j, <<" ">>))
    IN  [cur EXCEPT !.current_h2 = title, !.current_size = _major_group_from_h2(title)]

\* A variant that keeps the first sub heading it met.
H4LocalsKeepFirst(cur, d, j) ==
    IF cur.current_h4 # <<>> THEN cur
    ELSE [cur EXCEPT !.current_h4 = _clean_text(get_text(d, j, <<" ">>))]

\* The locals after the h4 element j.
H4Locals(cur, d, j) == [cur EXCEPT !.current_h4 = _clean_text(get_text(d, j, <<" ">>))]

\* A variant that compares the markup of the two elements (el == intro).
IsIntroByValue(d, j, introv) ==
    /\ d[j].tag = "blockquote"
    /\ introv # None
    /\ [d[j] EXCEPT !.parent = 0] = [d[introv[1]] EXCEPT !.parent = 0]

\* if el.name == "blockquote" and intro and el is intro: continue
IsIntro(d, j, introv) == d[j].tag = "blockquote" /\ introv # None /\ introv = Some(j)

\* A variant that joins the lines by a space.
UlFragmentSpaceJoined(d, j) ==
    LET lis   == LiTexts(d, j)
        lines == NonEmpty([k \in DOMAIN lis |-> _clean_text(lis[k])])
    IN  [text |-> _clean_text(Join(<<" ">>, lines)), lines |-> lines]

\* The text and lines of the ul element j.
UlFragment(d, j) ==
    LET lis   == LiTexts(d, j)
        lines == NonEmpty([k \in DOMAIN lis |-> _clean_text(lis[k])])
    IN  [text |-> _clean_text(Join(<<"\n">>, lines)), lines |-> lines]

\* A variant that gives a quote its text as its one line.
BlockquoteFragmentWithLine(d, j) ==
    [text |-> _render_node_as_text(d, j), lines |-> <<_render_node_as_text(d, j)>>]

\* The text and (no) lines of the blockquote element j.
BlockquoteFragment(d, j) == [text |-> _render_node_as_text(d, j), lines |-> <<>>]

\* The block appended for a fragment under the current headings.
FragmentBlock(cur, frag) ==
    LET cat == Category(cur.current_h4)
    IN  PatchBlock(cat, cur.current_size, cur.current_h2, cur.current_h4, cur.order,
                   frag.text, frag.lines, UnitTier(cat, cur.current_h4))

RECURSIVE Walk(_, _, _, _, _)
\* The loop over the elements els, from locals cur and blocks bs: the blocks at its end.
Walk(d, els, introv, cur, bs) ==
    IF els = <<>> THEN bs
    ELSE LET j    == Head(els)
             frag == IF d[j].tag = "ul" THEN UlFragment(d, j) ELSE BlockquoteFragment(d, j)
         IN  IF d[j].tag = "h2" THEN Walk(d, Tail(els), introv, H2Locals(cur, d, j), bs)
             ELSE IF d[j].tag = "h4" THEN Walk(d, Tail(els), introv, H4Locals(cur, d, j), bs)
             ELSE IF IsIntro(d, j, introv) \/ frag.text = <<>>
                  THEN Walk(d, Tail(els), introv, cur, bs)
             ELSE Walk(d, Tail(els), introv, [cur EXCEPT !.order = NextOrder(@)],
                       Append(bs, FragmentBlock(cur, frag)))

\* The list one call returns when nothing else runs.
parse_tft_patch_blocks(html) ==
    IF ~Truthy(html) THEN <<>>
    ELSE Walk(html.nodes, FindAll(html.nodes), SelectIntro(html.nodes),
              PrepassLocals(html.nodes), PrepassBlocks(html.nodes))

-----------------------------------------------------------------------------
(* The parser as a state machine: one call per member of Calls *)

Calls == {"A", "B"}

\* The fallback texts a call may be given.
RawTexts == {None, Some(<<>>), Some(<<" ">>), Some(<<" ", "x", "\n">>)}

\* raw_html of call "A" is None, the empty string, or markup of at most
\* MaxNodes elements of the given kinds in any shape; "B" is given None.
OnlyA(h) == [c \in Calls |-> IF c = "A" THEN h ELSE NoHtml]

HtmlInput(kinds) ==
    \/ \E h \in {NoHtml, EmptyHtml} : raw_html = OnlyA(h)
    \/ \E n \in 0..MaxNodes : \E p \in Shapes(n) : \E k \in [1..n -> kinds] :
          /\ WellFormed(Shaped(k, p))
          /\ raw_html = OnlyA(Markup(Shaped(k, p)))

\* raw_html of call "A" is None, the empty string, or markup of at most max
\* elements of the given kinds, one after the other in the soup.
FlatHtmlInput(kinds, max) ==
    \/ \E h \in {NoHtml, EmptyHtml} : raw_html = OnlyA(h)
    \/ \E n \in 0..max : \E k \in [1..n -> kinds] : raw_html = OnlyA(Markup(k))

\* A large-changes document, a units document and a document of a heading
\* alone, for the concurrent calls.
ConcDocA ==
    << Element("blockquote", "", {"blockquote", "context"}, <<"a">>, <<>>, 0),
       Element("h2", "", {}, T_LargeChanges, <<>>, 0),
       Element("ul", "", {}, <<>>, << <<"x">>, <<" ">>, <<"y">> >>, 0) >>

ConcDocB ==
    << Element("h4", "", {}, T_UnitsTier2, <<>>, 0),
       Element("blockquote", "", {}, <<"b", " ">>, <<>>, 0),
       Element("blockquote", "", {}, <<"b", " ">>, <<>>, 2) >>

ConcDocC == << Element("h2", "", {}, T_LargeChanges, <<>>, 0) >>

ConcInputs == {NoHtml, EmptyHtml, Markup(ConcDocA), Markup(ConcDocB), Markup(ConcDocC)}

\* A variant that keeps the locals at module level: every call works on the same.
SharedLocals(c) == "A"

\* Whose locals (order, current_h2, current_size, current_h4) a call works on:
\* they are variables of the function body, so its own.
Locals(c) == c

NoResult == [outcome |-> "none", value |-> <<>>]

\* parse_tft_patch_blocks up to the loop: the overview pre-pass and the locals.
EnterBlocks(c) ==
    LET d == raw_html[c].nodes
    IN  /\ blocks' = [blocks EXCEPT ![c] = PrepassBlocks(d)]
        /\ ctx' = [ctx EXCEPT ![Locals(c)] = PrepassLocals(d)]
        /\ intro' = [intro EXCEPT ![c] = SelectIntro(d)]
        /\ todo' = [todo EXCEPT ![c] = FindAll(d)]
        /\ pc' = [pc EXCEPT ![c] = "walk"]

\* parse_tft_patch_blocks(raw_html) called directly.
CallBlocks(c) ==
    /\ pc[c] = "idle"
    /\ entry' = [entry EXCEPT ![c] = "parse_tft_patch_blocks"]
    /\ IF ~Truthy(raw_html[c])
       THEN /\ blocks' = [blocks EXCEPT ![c] = <<>>]
            /\ result' = [result EXCEPT ![c] = [outcome |-> "blocks", value |-> <<>>]]
            /\ pc' = [pc EXCEPT ![c] = "done"]
            /\ UNCHANGED <<ctx, intro, todo>>
       ELSE /\ EnterBlocks(c)
            /\ UNCHANGED result
    /\ UNCHANGED <<raw_html, raw_text, parsed>>
    /\ UNCHANGED <<classifierVars, fetchVars, viewVars>>

\* parse_tft_patch(raw_text, raw_html): with markup, into parse_tft_patch_html
\* and parse_tft_patch_blocks; without, straight to the fallback. The argument
\* raw_text is read only after the markup was tried: it is drawn where the call
\* first reads it, here or in ReturnParse.
CallParse(c) ==
    /\ pc[c] = "idle"
    /\ entry' = [entry EXCEPT ![c] = "parse_tft_patch"]
    /\ IF Truthy(raw_html[c])
       THEN /\ EnterBlocks(c)
            /\ UNCHANGED <<raw_text, result>>
       ELSE /\ \E t \in RawTexts :
                  /\ raw_text' = [raw_text EXCEPT ![c] = t]
                  /\ result' = [result EXCEPT ![c] = parse_tft_patch_return(<<>>, t)]
            /\ pc' = [pc EXCEPT ![c] = "done"]
            /\ UNCHANGED <<ctx, intro, todo, blocks>>
    /\ UNCHANGED <<raw_html, parsed>>
    /\ UNCHANGED <<classifierVars, fetchVars, viewVars>>

\* The document of call c and the element its loop is at.
Doc(c) == raw_html[c].nodes

AtElement(c) == pc[c] = "walk" /\ todo[c] # <<>>

Current(c) == Doc(c)[Head(todo[c])]

Advance(c) == todo' = [todo EXCEPT ![c] = Tail(@)]

\* blocks.append({...}); order += 1 -- or nothing, for a fragment with no text.
Emit(c, frag) ==
    IF frag.text = <<>> THEN UNCHANGED <<blocks, ctx>>
    ELSE /\ blocks' = [blocks EXCEPT ![c] = Append(@, FragmentBlock(ctx[Locals(c)], frag))]
         /\ ctx' = [ctx EXCEPT ![Locals(c)].order = NextOrder(@)]

VisitH2(c) ==
    /\ AtElement(c)
    /\ Current(c).tag = "h2"
    /\ ctx' = [ctx EXCEPT ![Locals(c)] = H2Locals(@, Doc(c), Head(todo[c]))]
    /\ Advance(c)
    /\ UNCHANGED <<raw_html, raw_text, entry, pc, intro, blocks, parsed, result>>
    /\ UNCHANGED <<classifierVars, fetchVars, viewVars>>

VisitH4(c) ==
    /\ AtElement(c)
    /\ Current(c).tag = "h4"
    /\ ctx' = [ctx EXCEPT ![Locals(c)] = H4Locals(@, Doc(c), Head(todo[c]))]
    /\ Advance(c)
    /\ UNCHANGED <<raw_html, raw_text, entry, pc, intro, blocks, parsed, result>>
    /\ UNCHANGED <<classifierVars, fetchVars, viewVars>>

SkipIntro(c) ==
    /\ AtElement(c)
    /\ IsIntro(Doc(c), Head(todo[c]), intro[c])
    /\ Advance(c)
    /\ UNCHANGED <<raw_html, raw_text, entry, pc, intro, ctx, blocks, parsed, result>>
    /\ UNCHANGED <<classifierVars, fetchVars, viewVars>>

VisitUl(c) ==
    /\ AtElement(c)
    /\ Current(c).tag = "ul"
    /\ Emit(c, UlFragment(Doc(c), Head(todo[c])))
    /\ Advance(c)
    /\ UNCHANGED <<raw_html, raw_text, entry, pc, intro, parsed, result>>
    /\ UNCHANGED <<classifierVars, fetchVars, viewVars>>

VisitBlockquote(c) ==
    /\ AtElement(c)
    /\ Current(c).tag = "blockquote"
    /\ ~IsIntro(Doc(c), Head(todo[c]), intro[c])
    /\ Emit(c, BlockquoteFragment(Doc(c), Head(todo[c])))
    /\ Advance(c)
    /\ UNCHANGED <<raw_html, raw_text, entry, pc, intro, parsed, result>>
    /\ UNCHANGED <<classifierVars, fetchVars, viewVars>>

\* return blocks, to a direct caller.
ReturnBlocks(c) ==
    /\ pc[c] = "walk" /\ todo[c] = <<>>
    /\ entry[c] = "parse_tft_patch_blocks"
    /\ result' = [result EXCEPT ![c] = [outcome |-> "blocks", value |-> blocks[c]]]
    /\ pc' = [pc EXCEPT ![c] = "done"]
    /\ UNCHANGED <<raw_html, raw_text, entry, intro, todo, ctx, blocks, parsed>>
    /\ UNCHANGED <<classifierVars, fetchVars, viewVars>>

\* return blocks, to parse_tft_patch_html, which builds its dict and returns it
\* to parse_tft_patch, which returns it or falls back.
ReturnParse(c) ==
    /\ pc[c] = "walk" /\ todo[c] = <<>>
    /\ entry[c] = "parse_tft_patch"
    /\ \E t \in RawTexts :
          /\ raw_text' = [raw_text EXCEPT ![c] = t]
          /\ IF FillRaises(blocks[c])
             THEN /\ result' = [result EXCEPT ![c] =
                                   [outcome |-> "KeyError", value |-> <<>>]]
                  /\ UNCHANGED parsed
             ELSE LET view == parse_tft_patch_html(blocks[c])
                  IN  /\ parsed' = [parsed EXCEPT ![c] = view]
                      /\ result' = [result EXCEPT ![c] = parse_tft_patch_return(view, t)]
    /\ pc' = [pc EXCEPT ![c] = "done"]
    /\ UNCHANGED <<raw_html, entry, intro, todo, ctx, blocks>>
    /\ UNCHANGED <<classifierVars, fetchVars, viewVars>>

\* parse_tft_patch_html(raw_html) called directly: into parse_tft_patch_blocks,
\* which returns at once for markup that is None or empty.
CallHtml(c) ==
    /\ pc[c] = "idle"
    /\ entry' = [entry EXCEPT ![c] = "parse_tft_patch_html"]
    /\ IF Truthy(raw_html[c])
       THEN /\ EnterBlocks(c)
            /\ UNCHANGED result
       ELSE /\ blocks' = [blocks EXCEPT ![c] = <<>>]
            /\ result' = [result EXCEPT ![c] = [outcome |-> "dict", value |-> <<>>]]
            /\ pc' = [pc EXCEPT ![c] = "done"]
            /\ UNCHANGED <<ctx, intro, todo>>
    /\ UNCHANGED <<raw_html, raw_text, parsed>>
    /\ UNCHANGED <<classifierVars, fetchVars, viewVars>>

\* return blocks, to parse_tft_patch_html called directly, which builds its dict
\* and returns it.
ReturnHtml(c) ==
    /\ pc[c] = "walk" /\ todo[c] = <<>>
    /\ entry[c] = "parse_tft_patch_html"
    /\ IF FillRaises(blocks[c])
       THEN /\ result' = [result EXCEPT ![c] = [outcome |-> "KeyError", value |-> <<>>]]
            /\ UNCHANGED parsed
       ELSE LET view == parse_tft_patch_html(blocks[c])
            IN  /\ parsed' = [parsed EXCEPT ![c] = view]
                /\ result' = [result EXCEPT ![c] = [outcome |-> "dict", value |-> view]]
    /\ pc' = [pc EXCEPT ![c] = "done"]
    /\ UNCHANGED <<raw_html, raw_text, entry, intro, todo, ctx, blocks>>
    /\ UNCHANGED <<classifierVars, fetchVars, viewVars>>

\* The view built once more from the blocks of a finished call of
\* parse_tft_patch_html (lines 239-258): new Bucket lists, one append for each
\* block, the six items; the blocks are read and not assigned to.
BuildView(c) ==
    /\ pc[c] = "done"
    /\ entry[c] = "parse_tft_patch_html"
    /\ result[c].outcome = "dict"
    /\ Len(views) < MaxBuilds
    /\ IF blocks[c] = <<>>
       THEN /\ views' = Append(views, <<>>)
            /\ UNCHANGED view_buckets
       ELSE LET buckets == FillBuckets(blocks[c], NewBuckets(view_buckets))
            IN  /\ view_buckets' = buckets
                /\ views' = Append(views, OutOf(buckets))
    /\ UNCHANGED <<raw_html, raw_text, entry, pc, intro, todo, ctx, blocks, parsed, result>>
    /\ UNCHANGED <<classifierVars, fetchVars>>

\* One turn of the loop.
Visit(c) ==
    \/ VisitH2(c)
    \/ VisitH4(c)
    \/ SkipIntro(c)
    \/ VisitUl(c)
    \/ VisitBlockquote(c)

\* No classifier function has been called.
NoAnswer == [fn |-> "none", value |-> None]

NoClassifierCall ==
    /\ arg = None
    /\ answer = NoAnswer

\* The versions the fetch command is asked for, as <<major, minor>>, and the
\* runs of the command.
Versions == {<<16, 3>>, <<16, 4>>}

Runs == {"R1", "R2"}

\* A run of the command that has not started: nothing to do, no version in hand.
IdleRun ==
    [pc |-> "idle", versions |-> <<>>, version |-> None, url_used |-> None,
     raw_html |-> NoHtml, raw_text |-> <<>>, changed |-> FALSE, blocks |-> <<>>,
     added |-> 0, updated |-> 0, skipped |-> 0, not_found |-> 0]

\* Empty tables and no run of the command.
NoFetch ==
    /\ patches = [v \in Versions |-> None]
    /\ sections = <<>>
    /\ run = [r \in Runs |-> IdleRun]

\* No view has been built again.
NoView ==
    /\ view_buckets = _mk_buckets
    /\ views = <<>>

InitCalls ==
    /\ raw_text = [c \in Calls |-> None]
    /\ entry = [c \in Calls |-> "none"]
    /\ pc = [c \in Calls |-> "idle"]
    /\ intro = [c \in Calls |-> None]
    /\ todo = [c \in Calls |-> <<>>]
    /\ ctx = [c \in Calls |-> FreshLocals]
    /\ blocks = [c \in Calls |-> <<>>]
    /\ parsed = [c \in Calls |-> <<>>]
    /\ result = [c \in Calls |-> NoResult]

\* One call of parse_tft_patch_blocks, "A", on any markup of the bounded set;
\* "B" is never called.
Init ==
    /\ HtmlInput(ElementKinds)
    /\ InitCalls
    /\ NoClassifierCall
    /\ NoFetch
    /\ NoView

Next ==
    \/ CallBlocks("A")
    \/ VisitH2("A")
    \/ VisitH4("A")
    \/ SkipIntro("A")
    \/ VisitUl("A")
    \/ VisitBlockquote("A")
    \/ ReturnBlocks("A")

Spec == Init /\ [][Next]_vars

\* One call of parse_tft_patch_blocks, "A", on markup with two major and two sub
\* headings.
InitWalk ==
    /\ HtmlInput(WalkKinds)
    /\ InitCalls
    /\ NoClassifierCall
    /\ NoFetch
    /\ NoView

SpecWalk == InitWalk /\ [][Next]_vars

\* The call goes on: the next turn of its loop, or its return when the loop is
\* over, as seen on its position and on the elements left.
Proceed(c) ==
    /\ pc[c] = "walk"
    /\ IF todo[c] # <<>>
       THEN todo' = [todo EXCEPT ![c] = Tail(@)] /\ pc' = pc
       ELSE pc' = [pc EXCEPT ![c] = "done"] /\ todo' = todo

\* The same call, which takes its next step whenever it has one: the body of
\* the function waits for nothing.
SpecWalkLive == InitWalk /\ [][Next]_vars /\ WF_<<pc, todo>>(Proceed("A"))

\* One call of parse_tft_patch, "A".
InitParse ==
    /\ HtmlInput(ParseKinds)
    /\ InitCalls
    /\ NoClassifierCall
    /\ NoFetch
    /\ NoView

NextParse ==
    \/ CallParse("A")
    \/ VisitH2("A")
    \/ VisitH4("A")
    \/ SkipIntro("A")
    \/ VisitUl("A")
    \/ VisitBlockquote("A")
    \/ ReturnParse("A")

SpecParse == InitParse /\ [][NextParse]_vars

\* One call of parse_tft_patch_html, "A", on markup of at most MaxFlat elements.
InitHtml ==
    /\ FlatHtmlInput(ViewKinds, MaxFlat)
    /\ InitCalls
    /\ NoClassifierCall
    /\ NoFetch
    /\ NoView

NextHtml ==
    \/ CallHtml("A")
    \/ VisitH2("A")
    \/ VisitH4("A")
    \/ SkipIntro("A")
    \/ VisitUl("A")
    \/ VisitBlockquote("A")
    \/ ReturnHtml("A")

SpecHtml == InitHtml /\ [][NextHtml]_vars

\* One call of parse_tft_patch_html, "A", and then its view built again from the
\* blocks of the call, up to MaxBuilds times.
NextView ==
    \/ CallHtml("A")
    \/ VisitH2("A")
    \/ VisitH4("A")
    \/ SkipIntro("A")
    \/ VisitUl("A")
    \/ VisitBlockquote("A")
    \/ ReturnHtml("A")
    \/ BuildView("A")

SpecView == InitHtml /\ [][NextView]_vars

\* Two calls, of either function, whose steps interleave.
InitConc ==
    /\ raw_html \in [Calls -> ConcInputs]
    /\ InitCalls
    /\ NoClassifierCall
    /\ NoFetch
    /\ NoView

NextConc ==
    \E c \in Calls :
        \/ CallBlocks(c)
        \/ CallParse(c)
        \/ Visit(c)
        \/ ReturnBlocks(c)
        \/ ReturnParse(c)

SpecConc == InitConc /\ [][NextConc]_vars

-----------------------------------------------------------------------------
(* The classifier functions, each called on a title *)

\* The parts titles are made of.
TitleParts ==
    { <<"l", "a", "r", "g", "e", " ", "c", "h", "a", "n", "g", "e", "s">>,
      SMALL_CHANGES,
      <<"U", "n", "i", "t", "s", ":">>,
      <<"t", "r", "a", "i", "t", "s">>,
      <<"A", "u", "g", "m", "e", "n", "t", "s">>,
      <<"C", "o", "r", "e", " ", "I", "t", "e", "m", "s">>,
      <<"r", "a", "d", "i", "a", "n", "t", " ", "i", "t", "e", "m", "s">>,
      ARTIFACTS,
      <<"E", "m", "b", "l", "e", "m", "s">>,
      T_UnitsTier2,
      <<"T", "i", "e", "r">>,
      <<" ">>,
      <<"2">>,
      <<"x">> }

\* title or "": None reads as the empty string.
OrEmpty(t) == IF t = None THEN <<>> ELSE t[1]

\* The argument is None, or a heading's text as the walk makes it: the parts
\* one after the other, through _clean_text.
TitleInput ==
    \/ arg = None
    \/ \E n \in 0..MaxParts : \E k \in [1..n -> TitleParts] :
          arg = Some(_clean_text(Flatten(k)))

Call_major_group_from_h2 ==
    /\ answer.fn = "none"
    /\ answer' = [fn |-> "_major_group_from_h2",
                  value |-> _major_group_from_h2(OrEmpty(arg))]
    /\ UNCHANGED <<arg, fetchVars, viewVars>>
    /\ UNCHANGED <<raw_html, raw_text, entry, pc, intro, todo, ctx, blocks, parsed, result>>

Call_category_from_h4 ==
    /\ answer.fn = "none"
    /\ answer' = [fn |-> "_category_from_h4",
                  value |-> _category_from_h4(OrEmpty(arg))]
    /\ UNCHANGED <<arg, fetchVars, viewVars>>
    /\ UNCHANGED <<raw_html, raw_text, entry, pc, intro, todo, ctx, blocks, parsed, result>>

Call_extract_unit_tier ==
    /\ answer.fn = "none"
    /\ answer' = [fn |-> "_extract_unit_tier",
                  value |-> _extract_unit_tier(OrEmpty(arg))]
    /\ UNCHANGED <<arg, fetchVars, viewVars>>
    /\ UNCHANGED <<raw_html, raw_text, entry, pc, intro, todo, ctx, blocks, parsed, result>>

\* The characters of the texts given to _clean_text.
TextChars == {"a", " ", "\t", "\n", "\r"}

\* The argument is None or a text of at most MaxText characters.
TextInput ==
    \/ arg = None
    \/ \E n \in 0..MaxText : \E str \in [1..n -> TextChars] : arg = Some(str)

\* _clean_text(s): None reads as the empty string (s or "").
Call_clean_text ==
    /\ answer.fn = "none"
    /\ answer' = [fn |-> "_clean_text", value |-> _clean_text(OrEmpty(arg))]
    /\ UNCHANGED <<arg, fetchVars, viewVars>>
    /\ UNCHANGED <<raw_html, raw_text, entry, pc, intro, todo, ctx, blocks, parsed, result>>

\* One call of _clean_text on one text.
InitClean ==
    /\ TextInput
    /\ answer = NoAnswer
    /\ raw_html = [c \in Calls |-> NoHtml]
    /\ InitCalls
    /\ NoFetch
    /\ NoView

NextClean == Call_clean_text

SpecClean == InitClean /\ [][NextClean]_vars

\* One call of one classifier function on one title; no parser call, no fetch.
InitClassifier ==
    /\ TitleInput
    /\ answer = NoAnswer
    /\ raw_html = [c \in Calls |-> NoHtml]
    /\ InitCalls
    /\ NoFetch
    /\ NoView

NextClassifier ==
    \/ Call_major_group_from_h2
    \/ Call_category_from_h4
    \/ Call_extract_unit_tier

SpecClassifier == InitClassifier /\ [][NextClassifier]_vars

-----------------------------------------------------------------------------
(* management/commands/fetch_tft_patches.py: the fetch command *)

\* _version_key: the version as (major, minor); versions are kept as that pair.
_version_key(v) == <<v[1], v[2]>>

\* a < b for two keys, as Python orders tuples.
KeyLess(a, b) == a[1] < b[1] \/ (a[1] = b[1] /\ a[2] < b[2])

RECURSIVE SortedDesc(_)
\* sorted(set(versions), key=_version_key, reverse=True)
SortedDesc(vs) ==
    IF vs = {} THEN <<>>
    ELSE LET top == CHOOSE v \in vs :
                        \A w \in vs \ {v} : KeyLess(_version_key(w), _version_key(v))
         IN  <<top>> \o SortedDesc(vs \ {top})

\* _url_candidates: the two addresses tried for a version, the second with "-notes".
_url_candidates(version) ==
    << [version |-> version, notes |-> FALSE], [version |-> version, notes |-> TRUE] >>

\* The least length of a usable raw_text: 200 in the source, 2 for the model's
\* texts, which are a hundred times shorter than a page's.
MinTextLen == 2

\* The element that holds the patch notes on a page: the container with the id
\* the parser looks for, the rich-text element or the article, or none.
Holders == {"container", "rich-text", "article", "none"}

HolderElement(holder) ==
    IF holder = "container" THEN Element("div", "patch-notes-container", {}, <<>>, <<>>, 0)
    ELSE IF holder = "rich-text" THEN Element("div", "", {}, <<>>, <<>>, 0)
    ELSE Element("article", "", {}, <<>>, <<>>, 0)

\* A document with a quote too short to be a patch.
ShortDoc == << Element("blockquote", "", {}, <<"b", " ">>, <<>>, 0) >>

\* What the notes on a page may be.
PageDocs == {ConcDocA, ConcDocB, ConcDocC, ShortDoc}

\* str(container) or str(article): the holder with the document in it.
Held(holder, d) ==
    <<HolderElement(holder)>> \o [i \in DOMAIN d |-> [d[i] EXCEPT !.parent = @ + 1]]

\* The pages a request may be answered with.
Pages == [holder : Holders, doc : PageDocs]

\* raw_html and raw_text of a page (lines 125-134): the holder as markup and its
\* text, or two empty strings when the page has no holder.
PageHtml(page) ==
    IF page.holder = "none" THEN EmptyHtml ELSE Markup(Held(page.holder, page.doc))

PageText(page) ==
    IF page.holder = "none" THEN <<>>
    ELSE get_text(Held(page.holder, page.doc), 1, <<"\n">>)

\* if not raw_text or len(raw_text) < 200
TooShort(text) == text = <<>> \/ Len(text) < MinTextLen

\* sha256 of raw_text + "\n\n" + raw_html, taken as free of collisions: the
\* payload itself.
ContentHash(text, html) == <<text, html>>

\* A row of Patch for a version.
PatchRow(text, html, url) ==
    [raw_text |-> text, raw_html |-> html, content_hash |-> ContentHash(text, html),
     source_url |-> url, source_slug |-> url]

\* PatchSection(patch=patch, category=b["category"], ..., unit_tier=b["unit_tier"])
PatchSection(version, b) ==
    [patch |-> version, category |-> b.category, size |-> b.size, h2 |-> b.h2,
     h4 |-> b.h4, order |-> b.order, text |-> b.text, lines_json |-> b.lines,
     unit_tier |-> b.unit_tier]

\* A variant that deletes nothing.
WithoutSectionsOfKept(rows, version) == rows

\* patch.sections.all().delete(): the table without the sections of the patch.
WithoutSectionsOf(rows, version) == SelectSeq(rows, LAMBDA row : row.patch # version)

\* The command starts: the versions asked for, sorted, newest first.
StartRun(r) ==
    /\ run[r].pc = "idle"
    /\ \E asked \in SUBSET Versions \ {{}} :
          run' = [run EXCEPT ![r] = [IdleRun EXCEPT !.pc = "loop",
                                                    !.versions = SortedDesc(asked)]]
    /\ UNCHANGED <<patches, sections, classifierVars, viewVars>>
    /\ UNCHANGED <<raw_html, raw_text, entry, pc, intro, todo, ctx, blocks, parsed, result>>

\* A variant that goes on to the sections as for a changed patch.
SkipTurnSectionsAgain(turn) ==
    [turn EXCEPT !.skipped = @ + 1, !.changed = TRUE, !.pc = "delete"]

\* else: skipped += 1 -- changed stays False and the turn is over.
SkipTurn(turn) == [turn EXCEPT !.skipped = @ + 1]

\* What one turn of the loop over the versions does up to the sections, given
\* the address that answered (0: none did) and the page it answered with.
Fetched(r, used, page) ==
    LET version == Head(run[r].versions)
        html    == PageHtml(page)
        text    == PageText(page)
        url     == _url_candidates(version)[used]
        row     == PatchRow(text, html, url)
        turn    == [run[r] EXCEPT !.versions = Tail(@), !.version = Some(version),
                                  !.url_used = None, !.raw_html = NoHtml,
                                  !.raw_text = <<>>, !.changed = FALSE, !.blocks = <<>>]
        got     == [turn EXCEPT !.url_used = Some(url), !.raw_html = html,
                                !.raw_text = text]
    IN  IF used = 0
        THEN /\ run' = [run EXCEPT ![r] = [turn EXCEPT !.not_found = @ + 1]]
             /\ UNCHANGED patches
        ELSE IF TooShort(text)
        THEN /\ run' = [run EXCEPT ![r] = got]
             /\ UNCHANGED patches
        ELSE IF patches[version] = None
        THEN /\ patches' = [patches EXCEPT ![version] = Some(row)]
             /\ run' = [run EXCEPT ![r] = [got EXCEPT !.added = @ + 1, !.changed = TRUE,
                                                      !.pc = "delete"]]
        ELSE IF patches[version][1].content_hash # ContentHash(text, html)
        THEN /\ patches' = [patches EXCEPT ![version] = Some(row)]
             /\ run' = [run EXCEPT ![r] = [got EXCEPT !.updated = @ + 1, !.changed = TRUE,
                                                      !.pc = "delete"]]
        ELSE /\ run' = [run EXCEPT ![r] = SkipTurn(got)]
             /\ UNCHANGED patches

\* One turn of the loop, lines 106-173: the requests, the holder, the length
\* test, the hash, and the Patch row created, updated or left as it is.
FetchVersion(r) ==
    /\ run[r].pc = "loop"
    /\ run[r].versions # <<>>
    /\ \E used \in 0..2 : \E page \in Pages : Fetched(r, used, page)
    /\ UNCHANGED <<sections, classifierVars, viewVars>>
    /\ UNCHANGED <<raw_html, raw_text, entry, pc, intro, todo, ctx, blocks, parsed, result>>

\* patch.sections.all().delete()
DeleteSections(r) ==
    /\ run[r].pc = "delete"
    /\ sections' = WithoutSectionsOf(sections, run[r].version[1])
    /\ run' = [run EXCEPT ![r].pc = "parse"]
    /\ UNCHANGED <<patches, classifierVars, viewVars>>
    /\ UNCHANGED <<raw_html, raw_text, entry, pc, intro, todo, ctx, blocks, parsed, result>>

\* blocks = parse_tft_patch_blocks(raw_html or ""); if not blocks: continue
ParseBlocks(r) ==
    /\ run[r].pc = "parse"
    /\ LET bs == parse_tft_patch_blocks(run[r].raw_html)
       IN  run' = [run EXCEPT ![r].blocks = bs,
                              ![r].pc = IF bs = <<>> THEN "loop" ELSE "create"]
    /\ UNCHANGED <<patches, sections, classifierVars, viewVars>>
    /\ UNCHANGED <<raw_html, raw_text, entry, pc, intro, todo, ctx, blocks, parsed, result>>

\* PatchSection.objects.bulk_create([...])
BulkCreate(r) ==
    /\ run[r].pc = "create"
    /\ sections' = sections \o [i \in DOMAIN run[r].blocks |->
                                   PatchSection(run[r].version[1], run[r].blocks[i])]
    /\ run' = [run EXCEPT ![r].pc = "loop"]
    /\ UNCHANGED <<patches, classifierVars, viewVars>>
    /\ UNCHANGED <<raw_html, raw_text, entry, pc, intro, todo, ctx, blocks, parsed, result>>

\* The loop is over: the command prints its counts and ends.
FinishRun(r) ==
    /\ run[r].pc = "loop"
    /\ run[r].versions = <<>>
    /\ run' = [run EXCEPT ![r].pc = "idle"]
    /\ UNCHANGED <<patches, sections, classifierVars, viewVars>>
    /\ UNCHANGED <<raw_html, raw_text, entry, pc, intro, todo, ctx, blocks, parsed, result>>

\* The command run again and again, one run at a time, on empty tables at first.
InitFetch ==
    /\ NoFetch
    /\ NoView
    /\ raw_html = [c \in Calls |-> NoHtml]
    /\ InitCalls
    /\ NoClassifierCall

NextFetch ==
    \/ StartRun("R1")
    \/ FetchVersion("R1")
    \/ DeleteSections("R1")
    \/ ParseBlocks("R1")
    \/ BulkCreate("R1")
    \/ FinishRun("R1")

SpecFetch == InitFetch /\ [][NextFetch]_vars

\* Two runs of the command at once, each started for the same one version, on
\* empty tables: the steps of the two interleave.
InitTwoRuns ==
    /\ patches = [v \in Versions |-> None]
    /\ sections = <<>>
    /\ \E v \in Versions :
          run = [r \in Runs |-> [IdleRun EXCEPT !.pc = "loop", !.versions = SortedDesc({v})]]
    /\ raw_html = [c \in Calls |-> NoHtml]
    /\ InitCalls
    /\ NoClassifierCall
    /\ NoView

NextTwoRuns ==
    \E r \in Runs :
        \/ FetchVersion(r)
        \/ DeleteSections(r)
        \/ ParseBlocks(r)
        \/ BulkCreate(r)
        \/ FinishRun(r)

SpecTwoRuns == InitTwoRuns /\ [][NextTwoRuns]_vars

-----------------------------------------------------------------------------
(* Properties *)

Done(c) == pc[c] = "done"

ViaParse(c) == Done(c) /\ entry[c] = "parse_tft_patch"

ViaBlocks(c) == Done(c) /\ entry[c] = "parse_tft_patch_blocks"

\* C1: the i-th block of every block list, while it is built and when it is
\* returned, has order i - 1: the orders are 0, 1, ..., n - 1 with or without an
\* overview block.
C1_OrderIsPosition ==
    \A c \in Calls :
        /\ \A i \in DOMAIN blocks[c] : blocks[c][i].order = i - 1
        /\ result[c].outcome = "blocks" =>
              \A i \in DOMAIN result[c].value : result[c].value[i].order = i - 1

\* A returned list of an overview block and two heading-derived blocks.
C1_Witness ==
    /\ ViaBlocks("A")
    /\ Len(result["A"].value) = 3
    /\ result["A"].value[1].category = "overview"
    /\ result["A"].value[2].order = 1
    /\ result["A"].value[3].order = 2

\* C2: every block of every block list, the overview block included, has
\* non-empty text.
C2_EveryBlockHasText ==
    \A c \in Calls : \A i \in DOMAIN blocks[c] : blocks[c][i].text # <<>>

\* C3: a finished call of parse_tft_patch has not raised and has returned one of
\* three things: the six-key view of the markup's blocks, the one-key overview
\* dict of the fallback text, or the empty dict.
C3_ThreeOutcomes ==
    \A c \in Calls :
        ViaParse(c) =>
            \/ /\ result[c].outcome = "view"
               /\ blocks[c] # <<>>
               /\ [k \in DOMAIN result[c].value |-> result[c].value[k].key] = BucketKeys
            \/ /\ result[c].outcome = "fallback"
               /\ Len(result[c].value) = 1
               /\ result[c].value[1].key = "overview"
            \/ /\ result[c].outcome = "empty"
               /\ result[c].value = <<>>

\* A call that returned the view of markup with a units block in it.
C3_Witness ==
    /\ ViaParse("A")
    /\ result["A"].outcome = "view"
    /\ \E i \in DOMAIN blocks["A"] : blocks["A"][i].h4 = T_UnitsTier2

\* The dict of one overview item with the given `all` text.
OverviewOnly(text) == <<[key |-> "overview", all |-> text, large |-> <<>>, small |-> <<>>]>>

\* C4 as stated: with no blocks from the markup and a non-empty fallback text,
\* the result is the overview item alone, its `all` the fallback text verbatim.
C4_FallbackVerbatim ==
    \A c \in Calls :
        (ViaParse(c) /\ blocks[c] = <<>> /\ TruthyText(raw_text[c])) =>
            result[c].value = OverviewOnly(raw_text[c][1])

\* C4 amended: with no blocks from the markup and a non-empty fallback text, the
\* result is the overview item alone, its `all` the fallback text without its
\* leading and trailing whitespace, its `large` and `small` empty.
C4_FallbackStripped ==
    \A c \in Calls :
        (ViaParse(c) /\ blocks[c] = <<>> /\ TruthyText(raw_text[c])) =>
            /\ result[c].outcome = "fallback"
            /\ result[c].value = OverviewOnly(Strip(raw_text[c][1]))

\* Markup of an unrecognized shape and a fallback text with whitespace around it.
C4_Witness ==
    /\ ViaParse("A")
    /\ Truthy(raw_html["A"])
    /\ blocks["A"] = <<>>
    /\ raw_text["A"] = Some(<<" ", "x", "\n">>)
    /\ result["A"].value[1].all = <<"x">>

\* C5: with no blocks from the markup and the fallback text absent or empty,
\* parse_tft_patch returns the empty dict; and parse_tft_patch_blocks returns
\* the empty list for absent or empty markup.
C5_EmptyResult ==
    \A c \in Calls :
        /\ (ViaParse(c) /\ blocks[c] = <<>> /\ raw_text[c] \in {None, Some(<<>>)}) =>
              result[c] = [outcome |-> "empty", value |-> <<>>]
        /\ (ViaBlocks(c) /\ raw_html[c] \in {NoHtml, EmptyHtml}) =>
              result[c] = [outcome |-> "blocks", value |-> <<>>]

\* parse_tft_patch returned from empty markup and an empty fallback text, and
\* parse_tft_patch_blocks from absent markup.
C5_Witness ==
    /\ ViaParse("A")
    /\ raw_html["A"] = EmptyHtml
    /\ raw_text["A"] = Some(<<>>)
    /\ result["A"].outcome = "empty"
    /\ ViaBlocks("B")
    /\ raw_html["B"] = NoHtml
    /\ result["B"].value = <<>>

\* C6: when the markup gave at least one block, parse_tft_patch returns the view
\* parse_tft_patch_html built from those blocks, whatever the fallback text.
C6_MarkupWins ==
    \A c \in Calls :
        (ViaParse(c) /\ blocks[c] # <<>>) =>
            /\ result[c].outcome = "view"
            /\ result[c].value = parsed[c]
            /\ parsed[c] = parse_tft_patch_html(blocks[c])

\* A view returned although a non-empty fallback text was given.
C6_Witness ==
    /\ ViaParse("A")
    /\ Len(blocks["A"]) >= 2
    /\ TruthyText(raw_text["A"])
    /\ result["A"].outcome = "view"

\* C7: a block of category overview is the first of its list, has order 0,
\* size all and empty headings, and is there only when the pre-pass found an
\* intro or a designers node; so there is at most one, every other block comes
\* after it, and the loop appends none.
C7_OverviewFirstOnly ==
    \A c \in Calls : \A i \in DOMAIN blocks[c] :
        blocks[c][i].category = "overview" =>
            /\ i = 1
            /\ blocks[c][i].order = 0
            /\ blocks[c][i].size = "all"
            /\ blocks[c][i].h2 = <<>>
            /\ blocks[c][i].h4 = <<>>
            /\ \/ SelectIntro(raw_html[c].nodes) # None
               \/ SelectDesigners(raw_html[c].nodes) # None

\* An overview block followed by a block appended with no sub heading seen.
C7_Witness ==
    /\ Done("A")
    /\ Len(blocks["A"]) >= 2
    /\ blocks["A"][1].category = "overview"
    /\ blocks["A"][2].h4 = <<>>
    /\ blocks["A"][2].category = "other"

\* C8: a block whose category is not champions has unit_tier None.
C8_TierOnlyChampions ==
    \A c \in Calls : \A i \in DOMAIN blocks[c] :
        blocks[c][i].category # "champions" => blocks[c][i].unit_tier = None

\* A returned block under the sub heading "Tier 3", which holds a tier but is
\* not a units heading: category other, no tier.
C8_Witness ==
    /\ Done("A")
    /\ \E i \in DOMAIN blocks["A"] :
          /\ blocks["A"][i].h4 = T_Tier3
          /\ _extract_unit_tier(blocks["A"][i].h4) = Some(3)
          /\ blocks["A"][i].category = "other"
          /\ blocks["A"][i].unit_tier = None

\* C9: two finished calls of the same function with the same arguments have
\* returned the same: the same block list, position by position, and the same
\* result.
C9_SameInputSameOutput ==
    \A c1, c2 \in Calls :
        (/\ Done(c1) /\ Done(c2)
         /\ entry[c1] = entry[c2]
         /\ raw_html[c1] = raw_html[c2]
         /\ raw_text[c1] = raw_text[c2]) =>
            /\ blocks[c1] = blocks[c2]
            /\ result[c1] = result[c2]

\* Two finished calls on the same three-element document, two blocks each.
C9_Witness ==
    /\ ViaBlocks("A") /\ ViaBlocks("B")
    /\ raw_html["A"] = Markup(ConcDocA)
    /\ raw_html["B"] = Markup(ConcDocA)
    /\ Len(result["A"].value) = 2
    /\ Len(result["B"].value) = 2

\* C10: however the steps of the calls interleave, the block list of a finished
\* call is the one parse_tft_patch_blocks gives for its markup when it runs
\* alone, and a step of one call leaves the other calls' locals as they are.
C10_AsWhenAlone ==
    \A c \in Calls :
        /\ (Done(c) /\ Truthy(raw_html[c])) => blocks[c] = parse_tft_patch_blocks(raw_html[c])
        /\ ViaBlocks(c) => result[c].value = parse_tft_patch_blocks(raw_html[c])
        /\ pc[c] = "idle" => ctx[c] = FreshLocals

\* Two finished calls on different documents, one of them still at its loop
\* when the other appended a block.
C10_Witness ==
    /\ ViaBlocks("A") /\ ViaBlocks("B")
    /\ raw_html["A"] = Markup(ConcDocA)
    /\ raw_html["B"] = Markup(ConcDocB)
    /\ Len(result["A"].value) = 2
    /\ Len(result["B"].value) = 2

ViaHtml(c) == Done(c) /\ entry[c] = "parse_tft_patch_html"

\* The blocks of a category whose size is one of sizes, in the order of the list.
BlocksOf(bs, cat, sizes) ==
    SelectSeq(bs, LAMBDA b : b.category = cat /\ b.size \in sizes)

\* The entry of a block as the specification words it: the sub heading if it is
\* not empty, else the major heading, then a newline, then the body; the body
\* alone when both headings are empty.
EntryAsSpecified(b) ==
    IF b.h4 # <<>> THEN b.h4 \o <<"\n">> \o b.text
    ELSE IF b.h2 # <<>> THEN b.h2 \o <<"\n">> \o b.text
    ELSE b.text

\* The entries of the given blocks, joined by a blank line.
EntriesJoined(bs) == Join(<<"\n", "\n">>, [i \in DOMAIN bs |-> EntryAsSpecified(bs[i])])

\* C11: in the view parse_tft_patch_html returned, the `all` string of every
\* category is the entries of that category's blocks of every size, in the order
\* of the block list, joined by a blank line.
C11_AllIsEveryBlock ==
    \A c \in Calls :
        (ViaHtml(c) /\ blocks[c] # <<>>) =>
            /\ result[c].outcome = "dict"
            /\ Len(result[c].value) = Len(BucketKeys)
            /\ \A k \in DOMAIN result[c].value :
                  result[c].value[k].all =
                      EntriesJoined(BlocksOf(blocks[c], result[c].value[k].key,
                                             {"all", "large", "small"}))

\* The view of a major heading, a sub heading, a quote and a list: both blocks
\* are traits blocks under the sub heading, and `all` holds both entries.
C11_Witness ==
    /\ ViaHtml("A")
    /\ result["A"].outcome = "dict"
    /\ Len(blocks["A"]) = 2
    /\ blocks["A"][1].h2 = T_LargeChanges
    /\ \E k \in DOMAIN result["A"].value :
          /\ result["A"].value[k].key = "traits"
          /\ result["A"].value[k].all =
                T_Traits \o <<"\n", "b", "\n", "\n">> \o T_Traits \o <<"\n", "x", "\n", "y">>

\* C12: in the view parse_tft_patch_html returned, the `large` string of every
\* category is the entries of exactly that category's blocks of size large and
\* the `small` string those of exactly its blocks of size small, in the order of
\* the block list: a block of size all is in neither, no block is in both, and
\* what is in either is in `all`.
C12_LargeSmallBySize ==
    \A c \in Calls :
        (ViaHtml(c) /\ blocks[c] # <<>>) =>
            \A k \in DOMAIN result[c].value :
                LET key == result[c].value[k].key
                IN  /\ result[c].value[k].large =
                          EntriesJoined(BlocksOf(blocks[c], key, {"large"}))
                    /\ result[c].value[k].small =
                          EntriesJoined(BlocksOf(blocks[c], key, {"small"}))
                    /\ BlocksOf(blocks[c], key, {"large"}) # <<>> =>
                          Contains(result[c].value[k].all, result[c].value[k].large)
                    /\ BlocksOf(blocks[c], key, {"small"}) # <<>> =>
                          Contains(result[c].value[k].all, result[c].value[k].small)

\* The view of a quote under "Large Changes" and a quote under "small changes":
\* one category with one entry in large, the other in small and both in all.
C12_Witness ==
    /\ ViaHtml("A")
    /\ Len(blocks["A"]) = 2
    /\ \E k \in DOMAIN result["A"].value :
          /\ result["A"].value[k].key = "other"
          /\ result["A"].value[k].large = T_LargeChanges \o <<"\n", "b">>
          /\ result["A"].value[k].small = T_SmallChanges \o <<"\n", "b">>
          /\ result["A"].value[k].all =
                T_LargeChanges \o <<"\n", "b", "\n", "\n">> \o T_SmallChanges \o <<"\n", "b">>

-----------------------------------------------------------------------------
(* Which element a block came from *)

Started(c) == pc[c] \in {"walk", "done"} /\ Truthy(raw_html[c])

\* The elements the loop of call c has been through, in the order of the document.
Visited(c) ==
    LET all == FindAll(Doc(c))
    IN  SubSeq(all, 1, Len(all) - Len(todo[c]))

\* A string with a character that is not whitespace.
HasInk(str) == \E i \in DOMAIN str : str[i] \notin Whitespace

\* The texts of the list items in the list j, nested lists included, in
\* document order, as they are in the markup.
ItemsOf(d, j) ==
    LET sub == Subtree(d, j)
    IN  Flatten([k \in DOMAIN sub |-> d[sub[k]].items])

\* Whether element j has text to give a block: a list through its items, a
\* quote through any string in it; the intro is passed over.
GivesBlock(d, j, introv) ==
    \/ /\ d[j].tag = "ul"
       /\ LET items == ItemsOf(d, j) IN \E k \in DOMAIN items : HasInk(items[k])
    \/ /\ d[j].tag = "blockquote"
       /\ introv # Some(j)
       /\ LET strings == Strings(d, j) IN \E k \in DOMAIN strings : HasInk(strings[k])

\* The visited quotes and lists that gave a block, in the order of the document.
Sources(c) ==
    LET introv == SelectIntro(Doc(c))
    IN  SelectSeq(Visited(c), LAMBDA j : GivesBlock(Doc(c), j, introv))

\* How many blocks come before the blocks of the loop: the overview block, if any.
Offset(c) == IF blocks[c] # <<>> /\ blocks[c][1].category = "overview" THEN 1 ELSE 0

\* The blocks of the loop are as many as the visited elements that give one.
OneBlockEach(c) == Len(blocks[c]) = Offset(c) + Len(Sources(c))

\* The indices of the blocks of the loop, and the element block i came from.
LoopBlocks(c) == (Offset(c) + 1)..Len(blocks[c])

SourceOf(c, i) == Sources(c)[i - Offset(c)]

\* The block of a list.
FromList(c, i) == Doc(c)[SourceOf(c, i)].tag = "ul"

\* C13 as stated: the block of a list has one line for each item of the list, in
\* document order, and its text is the lines joined by a newline.
C13_OneLinePerItem ==
    \A c \in Calls :
        Started(c) =>
            /\ OneBlockEach(c)
            /\ \A i \in LoopBlocks(c) :
                  FromList(c, i) =>
                      LET items == ItemsOf(Doc(c), SourceOf(c, i))
                      IN  /\ Len(blocks[c][i].lines) = Len(items)
                          /\ \A k \in DOMAIN items :
                                blocks[c][i].lines[k] = _clean_text(Strip(items[k]))
                          /\ blocks[c][i].text = Join(<<"\n">>, blocks[c][i].lines)

\* C13 amended: the block of a list has one line for each item of the list whose
\* text is not empty once normalized, in document order, and its text is the
\* lines joined by a newline.
C13_OneLinePerNonEmptyItem ==
    \A c \in Calls :
        Started(c) =>
            /\ OneBlockEach(c)
            /\ \A i \in LoopBlocks(c) :
                  FromList(c, i) =>
                      LET items == ItemsOf(Doc(c), SourceOf(c, i))
                          inked == SelectSeq(items, HasInk)
                      IN  /\ blocks[c][i].lines =
                                [k \in DOMAIN inked |-> _clean_text(Strip(inked[k]))]
                          /\ blocks[c][i].text = Join(<<"\n">>, blocks[c][i].lines)

\* The returned block of the list of the items "x", " " and "y": two lines.
C13_Witness ==
    /\ ViaBlocks("A")
    /\ \E i \in LoopBlocks("A") :
          /\ FromList("A", i)
          /\ Len(ItemsOf(Doc("A"), SourceOf("A", i))) = 3
          /\ blocks["A"][i].lines = << <<"x">>, <<"y">> >>
          /\ blocks["A"][i].text = <<"x", "\n", "y">>

\* C14: the lines of a block are not empty if and only if the block came from
\* a list: the overview block and the block of a quote have none, the block of
\* a list has at least one, and no line is empty.
C14_LinesIffList ==
    \A c \in Calls :
        Started(c) =>
            /\ OneBlockEach(c)
            /\ \A i \in 1..Offset(c) : blocks[c][i].lines = <<>>
            /\ \A i \in LoopBlocks(c) :
                  /\ blocks[c][i].lines # <<>> <=> FromList(c, i)
                  /\ \A k \in DOMAIN blocks[c][i].lines : blocks[c][i].lines[k] # <<>>

\* An overview block, then the block of a quote, then the block of a list.
C14_Witness ==
    /\ ViaBlocks("A")
    /\ Len(blocks["A"]) = 3
    /\ Offset("A") = 1
    /\ ~FromList("A", 2) /\ blocks["A"][2].lines = <<>>
    /\ FromList("A", 3) /\ Len(blocks["A"][3].lines) = 2

\* The normalized text of the last heading of the given tag that the loop meets
\* before element j, or the empty string when it meets none.
LastHeading(d, tag, j) ==
    LET before == SelectSeq(FindAll(d), LAMBDA q : q < j /\ d[q].tag = tag)
    IN  IF before = <<>> THEN <<>>
        ELSE _clean_text(get_text(d, before[Len(before)], <<" ">>))

\* C19: a block of the loop has the headings that were current when its element
\* was visited: h4 is the text of the last sub heading before the element and
\* the category is that heading's (other when there is none), h2 is the text of
\* the last major heading before it and the size is that heading's (all when
\* there is none), and unit_tier is the sub heading's tier when the category is
\* champions.
C19_ClassifiedByLastHeadings ==
    \A c \in Calls :
        Started(c) =>
            /\ OneBlockEach(c)
            /\ \A i \in LoopBlocks(c) :
                  LET sub   == LastHeading(Doc(c), "h4", SourceOf(c, i))
                      major == LastHeading(Doc(c), "h2", SourceOf(c, i))
                      b     == blocks[c][i]
                  IN  /\ b.h4 = sub
                      /\ b.category = IF sub = <<>> THEN "other" ELSE _category_from_h4(sub)
                      /\ b.h2 = major
                      /\ b.size = IF major = <<>> THEN "all" ELSE _major_group_from_h2(major)
                      /\ b.category = "champions" => b.unit_tier = _extract_unit_tier(sub)

\* A quote after the sub headings "Tier 3" and "UNITS: Tier 2": a champions
\* block of tier 2.
C19_Witness ==
    /\ ViaBlocks("A")
    /\ Len(Doc("A")) = 3
    /\ Doc("A")[1].text = T_Tier3
    /\ Doc("A")[2].text = T_UnitsTier2
    /\ Len(blocks["A"]) = 1
    /\ blocks["A"][1].h4 = T_UnitsTier2
    /\ blocks["A"][1].category = "champions"
    /\ blocks["A"][1].unit_tier = Some(2)

\* The normalized text of the element the loop of call c is at.
CurrentTitle(c) == _clean_text(get_text(Doc(c), Head(todo[c]), <<" ">>))

\* C20: the turn of the loop at a major heading sets current_h2 and
\* current_size and leaves current_h4, order and blocks as they were; the turn at
\* a sub heading sets current_h4 and leaves current_h2, current_size, order and
\* blocks as they were.
C20_HeadingsSetOnlyTheirOwn ==
    [][\A c \in Calls :
          (AtElement(c) /\ todo'[c] = Tail(todo[c])) =>
              /\ Current(c).tag = "h2" =>
                    /\ ctx'[c].current_h2 = CurrentTitle(c)
                    /\ ctx'[c].current_size = _major_group_from_h2(CurrentTitle(c))
                    /\ ctx'[c].current_h4 = ctx[c].current_h4
                    /\ ctx'[c].order = ctx[c].order
                    /\ blocks'[c] = blocks[c]
              /\ Current(c).tag = "h4" =>
                    /\ ctx'[c].current_h4 = CurrentTitle(c)
                    /\ ctx'[c].current_h2 = ctx[c].current_h2
                    /\ ctx'[c].current_size = ctx[c].current_size
                    /\ ctx'[c].order = ctx[c].order
                    /\ blocks'[c] = blocks[c]]_vars

\* After a quote, a sub heading and then a major heading: the block of the
\* quote is still the only one, the counter is 1, and the sub heading is still
\* current under the new major heading.
C20_Witness ==
    /\ pc["A"] = "walk"
    /\ Len(Visited("A")) = 3
    /\ Doc("A")[2].tag = "h4"
    /\ Doc("A")[3].tag = "h2"
    /\ Len(blocks["A"]) = 1
    /\ ctx["A"].order = 1
    /\ ctx["A"].current_h4 = T_UnitsTier2
    /\ ctx["A"].current_h2 = T_SmallChanges
    /\ ctx["A"].current_size = "small"

-----------------------------------------------------------------------------
(* The classifier functions *)

\* The title a classifier function was called on, in upper case.
UpperTitle == Upper(OrEmpty(arg))

\* needle is in hay at position i.
OccursAt(hay, needle, i) ==
    /\ i >= 1
    /\ i + Len(needle) - 1 <= Len(hay)
    /\ \A k \in DOMAIN needle : hay[i + k - 1] = needle[k]

Occurs(hay, needle) == \E i \in DOMAIN hay : OccursAt(hay, needle, i)

\* C15: _major_group_from_h2 returns large when the title in upper case has
\* "LARGE CHANGES" in it (also when it has "SMALL CHANGES" too), else small
\* when it has "SMALL CHANGES", else all - so for the empty and the absent title.
C15_MajorGroup ==
    answer.fn = "_major_group_from_h2" =>
        /\ answer.value \in {"large", "small", "all"}
        /\ answer.value = "large" <=> Occurs(UpperTitle, LARGE_CHANGES)
        /\ answer.value = "small" <=>
              (Occurs(UpperTitle, SMALL_CHANGES) /\ ~Occurs(UpperTitle, LARGE_CHANGES))
        /\ arg \in {None, Some(<<>>)} => answer.value = "all"

\* A title with "SMALL CHANGES" before "large changes" in it: large.
C15_Witness ==
    /\ answer.fn = "_major_group_from_h2"
    /\ OccursAt(UpperTitle, SMALL_CHANGES, 1)
    /\ OccursAt(UpperTitle, LARGE_CHANGES, Len(SMALL_CHANGES) + 1)
    /\ answer.value = "large"

\* C16: _category_from_h4 returns one of five categories, never overview:
\* champions when the title in upper case starts with "UNITS:", traits when it
\* is "TRAITS", augments when it is "AUGMENTS", items when it is one of "CORE
\* ITEMS", "RADIANT ITEMS", "ARTIFACTS" and "EMBLEMS", and other for every other
\* title, the empty and the absent one among them.
C16_Category ==
    answer.fn = "_category_from_h4" =>
        /\ answer.value \in {"champions", "traits", "augments", "items", "other"}
        /\ answer.value = "champions" <=> OccursAt(UpperTitle, UNITS_COLON, 1)
        /\ answer.value = "traits" <=> UpperTitle = TRAITS
        /\ answer.value = "augments" <=> UpperTitle = AUGMENTS
        /\ answer.value = "items" <=>
              \/ UpperTitle = CORE_ITEMS
              \/ UpperTitle = RADIANT_ITEMS
              \/ UpperTitle = ARTIFACTS
              \/ UpperTitle = EMBLEMS
        /\ arg \in {None, Some(<<>>)} => answer.value = "other"

\* "radiant items", written in lower case: items.
C16_Witness ==
    /\ answer.fn = "_category_from_h4"
    /\ arg # None
    /\ arg[1] # RADIANT_ITEMS
    /\ UpperTitle = RADIANT_ITEMS
    /\ answer.value = "items"

\* "TIER" as a token with digits after it, from position i to position last of
\* t: TIER starts a word at i, whitespace or nothing follows, then digits up to
\* last, where the word ends.
TierToken(t, i, last) ==
    /\ OccursAt(t, TIER, i)
    /\ i = 1 \/ ~IsWord(t[i - 1])
    /\ last <= Len(t)
    /\ last = Len(t) \/ ~IsWord(t[last + 1])
    /\ \E first \in (i + 4)..last :
          /\ \A k \in (i + 4)..(first - 1) : t[k] \in Whitespace
          /\ \A k \in first..last : IsDigit(t[k])

\* The digits of the token from i to last.
TierDigits(t, i, last) ==
    SelectSeq(SubSeq(t, i + 4, last), IsDigit)

\* The tokens of t, each as <<position of TIER, position of the last digit>>.
TierTokens(t) ==
    LET starts == {i \in DOMAIN t : OccursAt(t, TIER, i)}
    IN  {p \in UNION {{<<i, last>> : last \in (i + 4)..Len(t)} : i \in starts} :
            TierToken(t, p[1], p[2])}

\* C17: _extract_unit_tier returns the number written by the digits after the
\* first token "TIER" of the title in upper case that has digits after it, and
\* None when the title has no such token, is empty or is absent.
C17_UnitTier ==
    answer.fn = "_extract_unit_tier" =>
        LET t      == UpperTitle
            tokens == TierTokens(t)
        IN  /\ answer.value = None <=> tokens = {}
            /\ \A p \in tokens :
                  (\A q \in tokens : q[1] >= p[1]) =>
                      answer.value = Some(IntOf(TierDigits(t, p[1], p[2])))
            /\ arg \in {None, Some(<<>>)} => answer.value = None

\* "UNITS: Tier 2" gives 2.
C17_Witness ==
    /\ answer.fn = "_extract_unit_tier"
    /\ arg = Some(T_UnitsTier2)
    /\ answer.value = Some(2)

-----------------------------------------------------------------------------
(* The fetch command *)

\* The stored sections of a version, in the order of the table.
SectionsOf(version) == SelectSeq(sections, LAMBDA row : row.patch = version)

\* A run that is through with a version whose patch it created or updated.
ThroughChanged(r) ==
    /\ run[r].pc \in {"loop", "idle"}
    /\ run[r].version # None
    /\ run[r].changed

\* C18: when the command is through with a version whose patch it created or
\* whose content hash had changed, the sections stored for the patch are one for
\* each block parse_tft_patch_blocks gives for the stored raw_html, in the same
\* order and with the same order, category, size, h2, h4, text, lines and
\* unit_tier, and no others: none for markup that gives no block.
C18_SectionsAreTheBlocks ==
    \A r \in Runs :
        ThroughChanged(r) =>
            LET version == run[r].version[1]
                stored  == SectionsOf(version)
                bs      == parse_tft_patch_blocks(patches[version][1].raw_html)
            IN  /\ Len(stored) = Len(bs)
                /\ \A i \in DOMAIN bs :
                      /\ stored[i].order = bs[i].order
                      /\ stored[i].category = bs[i].category
                      /\ stored[i].size = bs[i].size
                      /\ stored[i].h2 = bs[i].h2
                      /\ stored[i].h4 = bs[i].h4
                      /\ stored[i].text = bs[i].text
                      /\ stored[i].lines_json = bs[i].lines
                      /\ stored[i].unit_tier = bs[i].unit_tier

\* A run through with a version it updated: the two sections stored are those of
\* the new content, the units document.
C18_Witness ==
    /\ ThroughChanged("R1")
    /\ run["R1"].updated = 1
    /\ run["R1"].raw_html = Markup(Held("container", ConcDocB))
    /\ Len(SectionsOf(run["R1"].version[1])) = 2
    /\ SectionsOf(run["R1"].version[1])[1].unit_tier = Some(2)

-----------------------------------------------------------------------------
(* The walk: what it passes over, in which order, and how far it goes *)

\* The blocks the loop of call c appended, in the order of the list.
AppendedBlocks(c) == SubSeq(blocks[c], Offset(c) + 1, Len(blocks[c]))

\* The visited quotes with text, but for the one at the position the pre-pass
\* selected as the intro, in the order of the document.
QuotesToEmit(c) ==
    LET d == Doc(c)
    IN  SelectSeq(Visited(c), LAMBDA j : /\ d[j].tag = "blockquote"
                                         /\ SelectIntro(d) # Some(j)
                                         /\ _render_node_as_text(d, j) # <<>>)

\* C21: the loop passes over the quote at the position the pre-pass selected as
\* the intro and over no other: the blocks of quotes are one for each visited
\* quote with text at any other position, in document order and with its text,
\* be it styled as the intro or of the same text; with no intro, one for each
\* visited quote with text.
C21_SkipsOnlyTheIntro ==
    \A c \in Calls :
        Started(c) =>
            LET fromQuotes == SelectSeq(AppendedBlocks(c), LAMBDA b : b.lines = <<>>)
                quotes     == QuotesToEmit(c)
            IN  /\ Len(fromQuotes) = Len(quotes)
                /\ \A k \in DOMAIN quotes :
                      fromQuotes[k].text = _render_node_as_text(Doc(c), quotes[k])
                /\ intro[c] = SelectIntro(Doc(c))

\* Two quotes styled as the intro and of the same text: the first went to the
\* overview and was passed over, the second gave a block of its own.
C21_Witness ==
    /\ ViaBlocks("A")
    /\ Len(Doc("A")) = 2
    /\ SelectIntro(Doc("A")) = Some(1)
    /\ [Doc("A")[2] EXCEPT !.parent = 0] = [Doc("A")[1] EXCEPT !.parent = 0]
    /\ Doc("A")[2].parent = 0
    /\ Len(blocks["A"]) = 2
    /\ blocks["A"][1].category = "overview"
    /\ blocks["A"][2].text = <<"a">>
    /\ blocks["A"][2].order = 1

-----------------------------------------------------------------------------
(* The overview block *)

\* The normalized text of the intro node and of the author-notes node of call c,
\* each None when there is no such node.
IntroText(c) ==
    IF SelectIntro(Doc(c)) = None THEN None
    ELSE Some(_render_node_as_text(Doc(c), SelectIntro(Doc(c))[1]))

NotesText(c) ==
    IF SelectDesigners(Doc(c)) = None THEN None
    ELSE Some(_render_node_as_text(Doc(c), SelectDesigners(Doc(c))[1]))

HasOverview(c) == blocks[c] # <<>> /\ blocks[c][1].category = "overview"

BlankLine == <<"\n", "\n">>

\* C22 as stated: with both nodes the text of the overview block is the intro's
\* text, a blank line, the notes' text; with one node it is that node's text;
\* with neither there is no overview block.
C22_OverviewText ==
    \A c \in Calls :
        Started(c) =>
            IF IntroText(c) # None /\ NotesText(c) # None
            THEN /\ HasOverview(c)
                 /\ blocks[c][1].text = IntroText(c)[1] \o BlankLine \o NotesText(c)[1]
            ELSE IF IntroText(c) # None
            THEN HasOverview(c) /\ blocks[c][1].text = IntroText(c)[1]
            ELSE IF NotesText(c) # None
            THEN HasOverview(c) /\ blocks[c][1].text = NotesText(c)[1]
            ELSE ~HasOverview(c)

\* C22 amended: with both nodes the text of the overview block is the intro's
\* text, a blank line, the notes' text when neither text is empty, and the other
\* text alone when one of them is empty (the empty text when both are); with one
\* node it is that node's text; with neither there is no overview block.
C22_OverviewTextNormalized ==
    \A c \in Calls :
        Started(c) =>
            IF IntroText(c) # None /\ NotesText(c) # None
            THEN /\ HasOverview(c)
                 /\ blocks[c][1].text =
                       IF IntroText(c)[1] = <<>> THEN NotesText(c)[1]
                       ELSE IF NotesText(c)[1] = <<>> THEN IntroText(c)[1]
                       ELSE IntroText(c)[1] \o BlankLine \o NotesText(c)[1]
            ELSE IF IntroText(c) # None
            THEN HasOverview(c) /\ blocks[c][1].text = IntroText(c)[1]
            ELSE IF NotesText(c) # None
            THEN HasOverview(c) /\ blocks[c][1].text = NotesText(c)[1]
            ELSE ~HasOverview(c)

\* An intro with no text and author notes "d": the overview text is "d".
C22_Witness ==
    /\ ViaBlocks("A")
    /\ IntroText("A") = Some(<<>>)
    /\ NotesText("A") = Some(<<"d">>)
    /\ HasOverview("A")
    /\ result["A"].value[1].text = <<"d">>

-----------------------------------------------------------------------------
(* Document order *)

\* The text the element j gives its block.
TextOf(d, j) ==
    IF d[j].tag = "ul" THEN UlFragment(d, j).text ELSE _render_node_as_text(d, j)

\* C23: the blocks of the loop are in the document order of the elements they
\* came from: block i carries the text of its element, and of two blocks the one
\* whose element comes first in the document has the smaller order and the
\* earlier place in the list.
C23_BlocksInDocumentOrder ==
    \A c \in Calls :
        Started(c) =>
            /\ OneBlockEach(c)
            /\ \A i \in LoopBlocks(c) : blocks[c][i].text = TextOf(Doc(c), SourceOf(c, i))
            /\ \A i, k \in LoopBlocks(c) :
                  SourceOf(c, i) < SourceOf(c, k) =>
                      /\ blocks[c][i].order < blocks[c][k].order
                      /\ i < k

\* A quote, a list inside it and a quote after them: three blocks, in that order.
C23_Witness ==
    /\ ViaBlocks("A")
    /\ Len(Doc("A")) = 3
    /\ Doc("A")[1].tag = "blockquote"
    /\ Doc("A")[2].tag = "ul" /\ Doc("A")[2].parent = 1
    /\ Doc("A")[3].tag = "blockquote" /\ Doc("A")[3].parent = 0
    /\ Len(result["A"].value) = 3
    /\ result["A"].value[1].text = <<"b", "\n", "x", "\n", "y">>
    /\ result["A"].value[2].lines = << <<"x">>, <<"y">> >>
    /\ result["A"].value[3].text = <<"b">>
    /\ result["A"].value[3].order = 2

-----------------------------------------------------------------------------
(* The bucket view built again *)

\* C24: a view built again from the blocks of a call has the same items, key by
\* key the same all, large and small strings, as the view the call returned and
\* as every view built from those blocks before, and building it leaves every
\* block of the sequence as it was.
C24_ViewPurelyDerived ==
    [][views' # views =>
          /\ blocks' = blocks
          /\ views'[Len(views')] = result["A"].value
          /\ \A i \in DOMAIN views : views'[Len(views')] = views[i]]_vars

\* The view of two blocks built twice again, the same each time.
C24_Witness ==
    /\ ViaHtml("A")
    /\ Len(blocks["A"]) >= 2
    /\ Len(views) = 2
    /\ views[1] = views[2]
    /\ views[2] = result["A"].value
    /\ \E k \in DOMAIN views[2] : views[2][k].large # <<>>

-----------------------------------------------------------------------------
(* _clean_text *)

\* The positions of str from p to q that hold a character that is not whitespace.
InkIn(str, p, q) == {i \in p..q : str[i] \notin Whitespace}

Least(S) == CHOOSE i \in S : \A k \in S : i <= k

Greatest(S) == CHOOSE i \in S : \A k \in S : i >= k

\* The positions at which a line of str ends: a "\n", or a "\r" with no "\n"
\* right after it.
LineEnds(str) ==
    {i \in DOMAIN str : \/ str[i] = "\n"
                        \/ str[i] = "\r" /\ ~(i < Len(str) /\ str[i + 1] = "\n")}

\* The positions at which a line of str starts, in order.
LineStarts(str) ==
    SelectSeq([i \in DOMAIN str |-> i], LAMBDA p : p = 1 \/ (p - 1) \in LineEnds(str))

\* The line of str that starts at p, without the whitespace at its right end.
TrimmedLine(str, p) ==
    LET ends == {i \in LineEnds(str) : i >= p}
        q    == IF ends = {} THEN Len(str) ELSE Least(ends) - 1
        ink  == InkIn(str, p, q)
    IN  IF ink = {} THEN <<>> ELSE SubSeq(str, p, Greatest(ink))

\* The lines of str right-trimmed, from the first to the last that is not blank.
TrimmedLines(str) ==
    LET starts == LineStarts(str)
        lines  == [k \in DOMAIN starts |-> TrimmedLine(str, starts[k])]
        inked  == {k \in DOMAIN lines : lines[k] # <<>>}
    IN  IF inked = {} THEN <<>> ELSE SubSeq(lines, Least(inked), Greatest(inked))

\* str from its first to its last character that is not whitespace.
Stripped(str) ==
    LET ink == InkIn(str, 1, Len(str))
    IN  IF ink = {} THEN <<>> ELSE SubSeq(str, Least(ink), Greatest(ink))

\* C25: _clean_text returns the lines of its input right-trimmed, without the
\* blank lines before the first and after the last line that is not blank,
\* joined by a newline and stripped; what it returns does not begin and does not
\* end with whitespace, is the empty string for the empty and for the absent
\* input, and is returned as it is when _clean_text is applied to it.
C25_CleanText ==
    answer.fn = "_clean_text" =>
        LET out == answer.value
        IN  /\ out = Stripped(Join(<<"\n">>, TrimmedLines(OrEmpty(arg))))
            /\ out # <<>> => out[1] \notin Whitespace /\ out[Len(out)] \notin Whitespace
            /\ arg \in {None, Some(<<>>)} => out = <<>>
            /\ _clean_text(out) = out

\* " a \r": the line is trimmed on both sides and its break is dropped.
C25_Witness ==
    /\ answer.fn = "_clean_text"
    /\ arg = Some(<<" ", "a", " ", "\r">>)
    /\ answer.value = <<"a">>

-----------------------------------------------------------------------------
(* The walk ends *)

\* The headings, quotes and lists of a document, and those of them under the root.
WalkNodes(d) == {j \in DOMAIN d : d[j].tag \in {"h2", "h4", "blockquote", "ul"}}

NodesUnderRoot(d) == {j \in WalkNodes(d) : IsAncestor(d, Root(d), j)}

\* How often the loop of call c has been at element j.
TimesVisited(c, j) == Cardinality({k \in DOMAIN Visited(c) : Visited(c)[k] = j})

\* The loop of call c is over.
WalkOver(c) == Started(c) /\ todo[c] = <<>>

\* C26 as stated: when the loop is over it has been at every heading, quote and
\* list of the document exactly once.
C26_EveryNodeOnce ==
    \A c \in Calls :
        WalkOver(c) => \A j \in WalkNodes(Doc(c)) : TimesVisited(c, j) = 1

\* What holds of the loop at every turn: it has been at headings, quotes and
\* lists under the root only and at none twice, at all of them when it is over;
\* its turns and the blocks it appended are at most as many as the headings,
\* quotes and lists of the document, and the blocks at most one more with the
\* overview block.
WalkWithinNodes(c) ==
    LET d    == Doc(c)
        all  == FindAll(d)
        done == Len(all) - Len(todo[c])
    IN  /\ todo[c] = SubSeq(all, done + 1, Len(all))
        /\ \A j \in DOMAIN d :
              TimesVisited(c, j) <= (IF j \in NodesUnderRoot(d) THEN 1 ELSE 0)
        /\ WalkOver(c) => \A j \in NodesUnderRoot(d) : TimesVisited(c, j) = 1
        /\ done <= Cardinality(WalkNodes(d))
        /\ Len(blocks[c]) - Offset(c) <= done
        /\ Len(blocks[c]) <= Cardinality(WalkNodes(d)) + 1

\* C26 amended: the loop ends for every document; it is at each heading, quote
\* and list under the root (the container with the id "patch-notes-container"
\* when there is one, else the document) exactly once and at no element outside
\* it, so that its turns and the blocks it appends are at most as many as the
\* headings, quotes and lists of the document, plus one for the overview block.
C26_WalkEndsWithinNodes ==
    /\ [](\A c \in Calls : Started(c) => WalkWithinNodes(c))
    /\ \A c \in Calls : (pc[c] = "walk") ~> (pc[c] = "done")

\* A major heading before the container and a quote in it: the loop is over
\* after one turn, at the quote.
C26_Witness ==
    /\ ViaBlocks("A")
    /\ Len(Doc("A")) = 3
    /\ Doc("A")[1].tag = "h2"
    /\ Root(Doc("A")) = 2
    /\ Visited("A") = <<3>>
    /\ TimesVisited("A", 1) = 0
    /\ Len(blocks["A"]) = 1
    /\ blocks["A"][1].h2 = <<>>

-----------------------------------------------------------------------------
(* The view of markup with no text *)

\* C27: a view parse_tft_patch returns from the markup has at least one string
\* that is not empty, and markup that gives no text is passed over for a
\* fallback text that is not empty.
C27_ViewHasText ==
    \A c \in Calls :
        ViaParse(c) =>
            /\ result[c].outcome = "view" =>
                  \E k \in DOMAIN result[c].value :
                      \/ result[c].value[k].all # <<>>
                      \/ result[c].value[k].large # <<>>
                      \/ result[c].value[k].small # <<>>
            /\ (/\ \A i \in DOMAIN blocks[c] : blocks[c][i].text = <<>>
                /\ TruthyText(raw_text[c])) => result[c].outcome = "fallback"

-----------------------------------------------------------------------------
(* Content given to more than one block *)

\* The pieces of content a block of element a holds, each as <<element, k>>:
\* k = 0 is the element's own text, k > 0 its k-th list item. The block of a
\* quote, and the overview block, hold every piece of the subtree; the block of
\* a list holds the list items of the subtree. Pieces of whitespace are left out.
Pieces(d, a, ofList) ==
    UNION { { <<j, k>> : k \in { k \in (IF ofList THEN 1 ELSE 0)..Len(d[j].items) :
                                   HasInk(IF k = 0 THEN d[j].text ELSE d[j].items[k]) } } :
            j \in Range(Subtree(d, a)) }

\* The pieces the overview block of call c holds.
OverviewPieces(c) ==
    LET d == Doc(c)
    IN  (IF SelectIntro(d) = None THEN {} ELSE Pieces(d, SelectIntro(d)[1], FALSE))
        \cup (IF SelectDesigners(d) = None THEN {} ELSE Pieces(d, SelectDesigners(d)[1], FALSE))

\* The pieces block i of the loop of call c holds.
LoopPieces(c, i) == Pieces(Doc(c), SourceOf(c, i), FromList(c, i))

\* C28: no piece of content is in two blocks: what the overview block holds is
\* in no block of the loop, and no two blocks of the loop hold the same piece.
C28_ContentInOneBlock ==
    \A c \in Calls :
        (Done(c) /\ Truthy(raw_html[c])) =>
            /\ OneBlockEach(c)
            /\ \A i \in LoopBlocks(c) : LoopPieces(c, i) \cap OverviewPieces(c) = {}
            /\ \A i, k \in LoopBlocks(c) :
                  i # k => LoopPieces(c, i) \cap LoopPieces(c, k) = {}

-----------------------------------------------------------------------------
(* A version whose content has not changed *)

\* The turn of run r that starts in this step found the content it fetched
\* stored already: the stored hash of the version is the hash of what it fetched.
FetchedTheSame(r) ==
    /\ run[r].pc = "loop"
    /\ run[r].versions # <<>>
    /\ run'[r].versions = Tail(run[r].versions)
    /\ run'[r].url_used # None
    /\ patches[Head(run[r].versions)] # None
    /\ patches[Head(run[r].versions)][1].content_hash =
          ContentHash(run'[r].raw_text, run'[r].raw_html)

\* C29: a turn of the loop that fetches, for its version, content whose hash is
\* the stored one counts the version as skipped, counts nothing else, leaves
\* the Patch rows and the PatchSection rows as they are and goes on to the next
\* version: no delete, no parse, no create.
C29_SameHashSkips ==
    [][\A r \in Runs :
          FetchedTheSame(r) =>
              /\ run'[r].skipped = run[r].skipped + 1
              /\ run'[r].added = run[r].added
              /\ run'[r].updated = run[r].updated
              /\ run'[r].not_found = run[r].not_found
              /\ patches' = patches
              /\ sections' = sections
              /\ ~run'[r].changed
              /\ run'[r].blocks = <<>>
              /\ run'[r].pc = "loop"]_vars

\* A run that skipped a version stored with two sections by a run before it.
C29_Witness ==
    /\ run["R1"].pc = "loop"
    /\ run["R1"].skipped = 1
    /\ run["R1"].version # None
    /\ ~run["R1"].changed
    /\ run["R1"].url_used # None
    /\ patches[run["R1"].version[1]] # None
    /\ patches[run["R1"].version[1]][1].content_hash =
          ContentHash(run["R1"].raw_text, run["R1"].raw_html)
    /\ Len(SectionsOf(run["R1"].version[1])) = 2

-----------------------------------------------------------------------------
(* Two runs of the fetch command on one version *)

\* Both runs are over, and each of them created or updated the patch of version v.
BothChanged(v) ==
    \A r \in Runs :
        /\ run[r].pc = "idle"
        /\ run[r].version = Some(v)
        /\ run[r].changed

\* C30: when two runs that both created or updated the patch of a version are
\* over, however their steps interleaved, the sections stored for the patch are
\* one for each block of the stored raw_html, in their order: no order value is
\* stored twice and no section is missing.
C30_OneSectionPerBlock ==
    \A v \in Versions :
        BothChanged(v) =>
            LET stored == SectionsOf(v)
                bs     == parse_tft_patch_blocks(patches[v][1].raw_html)
            IN  /\ Len(stored) = Len(bs)
                /\ \A i \in DOMAIN bs : stored[i] = PatchSection(v, bs[i])
                /\ \A i, k \in DOMAIN stored :
                      stored[i].order = stored[k].order => i = k

====
